---- MODULE Spec2Model ----
(***************************************************************************)
(* A model of the NTP v3/v4 packet codec of ntp-proto (src/packet.rs):     *)
(* the bit-field and header codec, the extension-field codec, the NTS      *)
(* encrypted container, the MAC trailer and the packet facade.             *)
(*                                                                         *)
(* Octet strings are sequences over 0..255.  A Rust slice data[a..b] is    *)
(* Slice(data, a, b).  Result values are records [ok, err, val]; an error  *)
(* is a tuple <<kind>> or <<"InvalidVersion", v>>.                         *)
(***************************************************************************)
EXTENDS Integers, Sequences, FiniteSets, TLC

VARIABLES lay, data, cipher, tampered, pc, parsed, cursor, written, reparsed,
          request, requestId, served, server, response

vars == <<lay, data, cipher, tampered, pc, parsed, cursor, written, reparsed,
          request, requestId, served, server, response>>

\* a client's request, the server that answers it and the server's response
exchange == <<request, requestId, served, server, response>>

(***************************************************************************)
(* Octet-string helpers.                                                    *)
(***************************************************************************)
Slice(s, a, b) == SubSeq(s, a + 1, b)

Get(s, a, b) ==
    IF a <= b /\ b <= Len(s)
    THEN [ok |-> TRUE, val |-> Slice(s, a, b)]
    ELSE [ok |-> FALSE, val |-> <<>>]

\* the element of a one-element set; The({F(x) : x \in {e}}) is F(e) with e
\* evaluated once
The(S) == CHOOSE x \in S : TRUE

Zeros(n) == [i \in 1..n |-> 0]

Fill(n, b) == [i \in 1..n |-> b]

AnyNonZero(s) == \E i \in 1..Len(s) : s[i] # 0

U16FromBe(s) == s[1] * 256 + s[2]

U16ToBe(n) == <<(n \div 256) % 256, n % 256>>

AsU16(n) == n % 65536

\* a u32 is kept as its two 16-bit halves <<high, low>>
U32FromBe(s) == <<s[1] * 256 + s[2], s[3] * 256 + s[4]>>

U32ToBe(v) == U16ToBe(v[1]) \o U16ToBe(v[2])

\* a u64 is kept as its four 16-bit quarters, most significant first
U64FromBe(s) == <<U16FromBe(Slice(s, 0, 2)), U16FromBe(Slice(s, 2, 4)), U16FromBe(Slice(s, 4, 6)), U16FromBe(Slice(s, 6, 8))>>

U64ToBe(v) == U16ToBe(v[1]) \o U16ToBe(v[2]) \o U16ToBe(v[3]) \o U16ToBe(v[4])

AsI8(b) == IF b >= 128 THEN b - 256 ELSE b

AsU8(n) == (n + 256) % 256

Ok(v) == [ok |-> TRUE, err |-> <<>>, val |-> v]

Err(kind) == [ok |-> FALSE, err |-> <<kind>>, val |-> <<>>]

\* an index or a range out of range, an unwrap of None, unreachable!()
Panicked == [ok |-> FALSE, err |-> <<"panic">>, val |-> <<>>]

\* the kinds of enum PacketParsingError
PacketParsingError ==
    {"InvalidVersion", "IncorrectLength", "MalformedNtsExtensionFields", "MalformedNonce",
     "DecryptError"}

ErrInvalidVersion(v) == [ok |-> FALSE, err |-> <<"InvalidVersion", v>>, val |-> <<>>]

next_multiple_of(lhs, rhs) ==
    IF lhs % rhs = 0 THEN lhs ELSE lhs + (rhs - (lhs % rhs))

(***************************************************************************)
(* The AEAD (aes_siv::Aes128SivAead), an external collaborator.  It is      *)
(* modelled as a synthetic-IV construction: a 16-octet tag computed from   *)
(* the key, the nonce, the associated data and the plaintext, followed by  *)
(* the plaintext masked under the key.  The tag is a weighted checksum     *)
(* modulo a prime, so any single-octet change of nonce, associated data,   *)
(* tag or ciphertext body makes decryption fail.  A cipher is named by its *)
(* key: 0 is the all-zero key.                                              *)
(***************************************************************************)
ZeroKey == 0

TagLength == 16

\* a position-weighted checksum of an octet string modulo the prime
\* 8099999; every weight is below 8099999 / 256, so changing one octet
\* changes the sum
RECURSIVE HashRange(_, _, _)
HashRange(s, lo, hi) ==
    IF lo > hi THEN 0
    ELSE IF lo = hi THEN (s[lo] + 1) * (1 + ((lo * 7919) % 31013))
    ELSE The({(HashRange(s, lo, mid) + HashRange(s, mid + 1, hi)) % 8099999 :
                  mid \in {(lo + hi) \div 2}})

Hash(s) == HashRange(s, 1, Len(s)) % 8099999

SivTag(key, nonce, aad, pt) ==
    The({<<h % 256, (h \div 256) % 256, (h \div 65536) % 256>> \o Fill(TagLength - 3, 165) :
           h \in {The({Hash(input) : input \in {<<key>> \o nonce \o <<Len(aad) % 256>> \o aad \o pt}})}})

Mask(key, i) == (17 * key + 3 * i + 1) % 256

CipherEncrypt(key, nonce, aad, pt) ==
    SivTag(key, nonce, aad, pt) \o [i \in 1..Len(pt) |-> (pt[i] + Mask(key, i)) % 256]

Unmask(key, body) == [i \in 1..Len(body) |-> (body[i] + 256 - Mask(key, i)) % 256]

CipherDecrypt(key, nonce, aad, ct) ==
    IF Len(ct) < TagLength THEN [ok |-> FALSE, val |-> <<>>]
    ELSE The({IF SivTag(key, nonce, aad, pt) = Slice(ct, 0, TagLength)
              THEN [ok |-> TRUE, val |-> pt]
              ELSE [ok |-> FALSE, val |-> <<>>] :
                pt \in {Unmask(key, Slice(ct, TagLength, Len(ct)))}})

(***************************************************************************)
(* Bit-field codec: NtpLeapIndicator and NtpAssociationMode.                *)
(***************************************************************************)
\* the variants of enum NtpLeapIndicator
NtpLeapIndicator == {"NoWarning", "Leap61", "Leap59", "Unknown"}

\* the variants of enum NtpAssociationMode
NtpAssociationMode ==
    {"Reserved", "SymmetricActive", "SymmetricPassive", "Client", "Server",
     "Broadcast", "Control", "Private"}

\* NtpLeapIndicator::from_bits with the arms of 1 and 2 exchanged
LeapFromBits_exchanged(bits) ==
    CASE bits = 0 -> "NoWarning"
      [] bits = 1 -> "Leap59"
      [] bits = 2 -> "Leap61"
      [] bits = 3 -> "Unknown"
      [] OTHER -> "unreachable"

LeapFromBits(bits) ==
    CASE bits = 0 -> "NoWarning"
      [] bits = 1 -> "Leap61"
      [] bits = 2 -> "Leap59"
      [] bits = 3 -> "Unknown"
      [] OTHER -> "unreachable"

LeapToBits(leap) ==
    CASE leap = "NoWarning" -> 0
      [] leap = "Leap61" -> 1
      [] leap = "Leap59" -> 2
      [] leap = "Unknown" -> 3

ModeFromBits(bits) ==
    CASE bits = 0 -> "Reserved"
      [] bits = 1 -> "SymmetricActive"
      [] bits = 2 -> "SymmetricPassive"
      [] bits = 3 -> "Client"
      [] bits = 4 -> "Server"
      [] bits = 5 -> "Broadcast"
      [] bits = 6 -> "Control"
      [] bits = 7 -> "Private"
      [] OTHER -> "unreachable"

ModeToBits(mode) ==
    CASE mode = "Reserved" -> 0
      [] mode = "SymmetricActive" -> 1
      [] mode = "SymmetricPassive" -> 2
      [] mode = "Client" -> 3
      [] mode = "Server" -> 4
      [] mode = "Broadcast" -> 5
      [] mode = "Control" -> 6
      [] mode = "Private" -> 7

(***************************************************************************)
(* Fixed header codec: NtpHeaderV3V4.  NtpDuration, NtpTimestamp and       *)
(* ReferenceId live outside packet.rs; they are fixed-width big-endian     *)
(* encodings.                                                               *)
(***************************************************************************)
HeaderLength == 48

NtpDurationFromBitsShort(bits) == U32FromBe(bits)

NtpDurationToBitsShort(d) == U32ToBe(d)

ReferenceIdFromBytes(bits) == U32FromBe(bits)

ReferenceIdToBytes(r) == U32ToBe(r)

NtpTimestampFromBits(bits) == U64FromBe(bits)

NtpTimestampToBits(t) == U64ToBe(t)

HeaderDeserialize(d) ==
    IF Len(d) < HeaderLength THEN Err("IncorrectLength")
    ELSE Ok([leap |-> LeapFromBits(d[1] \div 64),
             mode |-> ModeFromBits(d[1] % 8),
             stratum |-> d[2],
             poll |-> AsI8(d[3]),
             precision |-> AsI8(d[4]),
             root_delay |-> NtpDurationFromBitsShort(Slice(d, 4, 8)),
             root_dispersion |-> NtpDurationFromBitsShort(Slice(d, 8, 12)),
             reference_id |-> ReferenceIdFromBytes(Slice(d, 12, 16)),
             reference_timestamp |-> NtpTimestampFromBits(Slice(d, 16, 24)),
             origin_timestamp |-> NtpTimestampFromBits(Slice(d, 24, 32)),
             receive_timestamp |-> NtpTimestampFromBits(Slice(d, 32, 40)),
             transmit_timestamp |-> NtpTimestampFromBits(Slice(d, 40, 48))])

\* NtpHeaderV3V4::serialize leaving the leap indicator out of the first octet
HeaderSerialize_without_leap(h, version) ==
    <<(version * 8 + ModeToBits(h.mode)) % 256>>
    \o <<h.stratum, AsU8(h.poll), AsU8(h.precision)>>
    \o NtpDurationToBitsShort(h.root_delay)
    \o NtpDurationToBitsShort(h.root_dispersion)
    \o ReferenceIdToBytes(h.reference_id)
    \o NtpTimestampToBits(h.reference_timestamp)
    \o NtpTimestampToBits(h.origin_timestamp)
    \o NtpTimestampToBits(h.receive_timestamp)
    \o NtpTimestampToBits(h.transmit_timestamp)

HeaderSerialize(h, version) ==
    <<(LeapToBits(h.leap) * 64 + version * 8 + ModeToBits(h.mode)) % 256>>
    \o <<h.stratum, AsU8(h.poll), AsU8(h.precision)>>
    \o NtpDurationToBitsShort(h.root_delay)
    \o NtpDurationToBitsShort(h.root_dispersion)
    \o ReferenceIdToBytes(h.reference_id)
    \o NtpTimestampToBits(h.reference_timestamp)
    \o NtpTimestampToBits(h.origin_timestamp)
    \o NtpTimestampToBits(h.receive_timestamp)
    \o NtpTimestampToBits(h.transmit_timestamp)

(***************************************************************************)
(* Extension-field codec: ExtensionField, one variant per record shape.     *)
(***************************************************************************)
UniqueIdentifier(bytes) == [variant |-> "UniqueIdentifier", data |-> bytes]

NtsCookie(bytes) == [variant |-> "NtsCookie", data |-> bytes]

NtsCookiePlaceholder(n) == [variant |-> "NtsCookiePlaceholder", cookie_length |-> n]

Unknown(id, bytes) == [variant |-> "Unknown", type_id |-> id, data |-> bytes]

\* 4 + len as u16, in u16 arithmetic
FieldLengthU16(len) == (4 + AsU16(len)) % 65536

encode_unique_identifier(identifier) ==
    U16ToBe(260) \o U16ToBe(FieldLengthU16(Len(identifier))) \o identifier
    \o Zeros(next_multiple_of(Len(identifier), 4) - Len(identifier))

\* encode_nts_cookie writing no padding after the cookie
encode_nts_cookie_unpadded(cookie) ==
    U16ToBe(516) \o U16ToBe(FieldLengthU16(Len(cookie))) \o cookie

encode_nts_cookie(cookie) ==
    U16ToBe(516) \o U16ToBe(FieldLengthU16(Len(cookie))) \o cookie
    \o Zeros(next_multiple_of(Len(cookie), 4) - Len(cookie))

encode_nts_cookie_placeholder(cookie_length) ==
    U16ToBe(772) \o U16ToBe(FieldLengthU16(cookie_length))
    \o Zeros(next_multiple_of(cookie_length, 4))

\* encode_unknown with the length field rounded up to the padded length
encode_unknown_padded_length(type_id, bytes) ==
    U16ToBe(type_id) \o U16ToBe(FieldLengthU16(next_multiple_of(Len(bytes), 4))) \o bytes
    \o Zeros(next_multiple_of(Len(bytes), 4) - Len(bytes))

encode_unknown(type_id, bytes) ==
    U16ToBe(type_id) \o U16ToBe(FieldLengthU16(Len(bytes))) \o bytes
    \o Zeros(next_multiple_of(Len(bytes), 4) - Len(bytes))

FieldSerialize(f) ==
    CASE f.variant = "UniqueIdentifier" -> encode_unique_identifier(f.data)
      [] f.variant = "NtsCookie" -> encode_nts_cookie(f.data)
      [] f.variant = "NtsCookiePlaceholder" -> encode_nts_cookie_placeholder(f.cookie_length)
      [] f.variant = "Unknown" -> encode_unknown(f.type_id, f.data)

RECURSIVE FieldsSerialize(_)
FieldsSerialize(fields) ==
    IF fields = <<>> THEN <<>>
    ELSE FieldSerialize(Head(fields)) \o FieldsSerialize(Tail(fields))

\* the octets encode_encryped writes once the ciphertext is computed, and
\* the encrypt call made
WriteEncrypted(packet_so_far, plaintext, nonce, ct) ==
    LET nonce_octet_count == Len(nonce)
        ct_octet_count == Len(ct)
        signature_octet_count == 8 + next_multiple_of(nonce_octet_count + ct_octet_count, 4)
    IN  [bytes |-> U16ToBe(1028)
                   \o U16ToBe(AsU16(signature_octet_count))
                   \o U16ToBe(AsU16(nonce_octet_count))
                   \o U16ToBe(AsU16(ct_octet_count))
                   \o nonce
                   \o Zeros(next_multiple_of(Len(nonce), 4) - Len(nonce))
                   \o ct
                   \o Zeros(next_multiple_of(Len(ct), 4) - Len(ct)),
         call |-> [aad |-> packet_so_far, nonce |-> nonce, msg |-> plaintext]]

\* encode_encryped sealing without associated data
encode_encryped_bare(w, fields_to_encrypt, key, nonce) ==
    The({The({WriteEncrypted(<<>>, plaintext, nonce, ct) :
                ct \in {CipherEncrypt(key, nonce, <<>>, plaintext)}}) :
           plaintext \in {FieldsSerialize(fields_to_encrypt)}})

\* w is the content of the cursor's buffer from index 0 to the cursor
\* position: w.get_ref()[..current_position]
encode_encryped(w, fields_to_encrypt, key, nonce) ==
    The({The({WriteEncrypted(w, plaintext, nonce, ct) :
                ct \in {CipherEncrypt(key, nonce, w, plaintext)}}) :
           plaintext \in {FieldsSerialize(fields_to_encrypt)}})

decode_unique_identifier(message) ==
    IF Len(message) < 32 THEN Err("IncorrectLength")
    ELSE Ok(UniqueIdentifier(message))

decode_nts_cookie(message) == Ok(NtsCookie(message))

decode_nts_cookie_placeholder(message) ==
    IF AnyNonZero(message) THEN Err("IncorrectLength")
    ELSE Ok(NtsCookiePlaceholder(AsU16(Len(message))))

decode_unknown(type_id, message) == Ok(Unknown(type_id, message))

\* from_message_bytes without the check of the nonce padding
from_message_bytes_unchecked(message_bytes) ==
    LET value == message_bytes
        nonce_length == U16FromBe(Slice(value, 0, 2))
        ciphertext_length == U16FromBe(Slice(value, 2, 4))
        ciphertext_start == 4 + next_multiple_of(nonce_length, 4)
        nonce_bytes == Get(value, 4, 4 + nonce_length)
        nonce_padding == Get(value, 4 + nonce_length, ciphertext_start)
        ciphertext == Get(value, ciphertext_start, ciphertext_start + ciphertext_length)
    IN  IF 4 + next_multiple_of(nonce_length, 4) + next_multiple_of(ciphertext_length, 4)
           # next_multiple_of(Len(value), 4)
        THEN Err("IncorrectLength")
        ELSE IF ~nonce_bytes.ok THEN Err("IncorrectLength")
        ELSE IF ~nonce_padding.ok THEN Err("IncorrectLength")
        ELSE IF ~ciphertext.ok THEN Err("IncorrectLength")
        ELSE IF Len(nonce_bytes.val) # 16 THEN Err("MalformedNonce")
        ELSE Ok([nonce |-> nonce_bytes.val, ciphertext |-> ciphertext.val])

\* from_message_bytes with the nonce length examined before anything else
from_message_bytes_nonce_first(message_bytes) ==
    LET value == message_bytes
        nonce_length == U16FromBe(Slice(value, 0, 2))
        ciphertext_length == U16FromBe(Slice(value, 2, 4))
        ciphertext_start == 4 + next_multiple_of(nonce_length, 4)
        nonce_bytes == Get(value, 4, 4 + nonce_length)
        nonce_padding == Get(value, 4 + nonce_length, ciphertext_start)
        ciphertext == Get(value, ciphertext_start, ciphertext_start + ciphertext_length)
    IN  IF nonce_length # 16 THEN Err("MalformedNonce")
        ELSE IF 4 + next_multiple_of(nonce_length, 4) + next_multiple_of(ciphertext_length, 4)
                # next_multiple_of(Len(value), 4)
        THEN Err("IncorrectLength")
        ELSE IF ~nonce_bytes.ok THEN Err("IncorrectLength")
        ELSE IF ~nonce_padding.ok THEN Err("IncorrectLength")
        ELSE IF AnyNonZero(nonce_padding.val) THEN Err("IncorrectLength")
        ELSE IF ~ciphertext.ok THEN Err("IncorrectLength")
        ELSE Ok([nonce |-> nonce_bytes.val, ciphertext |-> ciphertext.val])

\* UnparsedEncryptedField::from_message_bytes
from_message_bytes(message_bytes) ==
    LET value == message_bytes
        nonce_length == U16FromBe(Slice(value, 0, 2))
        ciphertext_length == U16FromBe(Slice(value, 2, 4))
        ciphertext_start == 4 + next_multiple_of(nonce_length, 4)
        nonce_bytes == Get(value, 4, 4 + nonce_length)
        nonce_padding == Get(value, 4 + nonce_length, ciphertext_start)
        ciphertext == Get(value, ciphertext_start, ciphertext_start + ciphertext_length)
    IN  IF Len(value) < 4 THEN Panicked
        ELSE IF 4 + next_multiple_of(nonce_length, 4) + next_multiple_of(ciphertext_length, 4)
           # next_multiple_of(Len(value), 4)
        THEN Err("IncorrectLength")
        ELSE IF ~nonce_bytes.ok THEN Err("IncorrectLength")
        ELSE IF ~nonce_padding.ok THEN Err("IncorrectLength")
        ELSE IF AnyNonZero(nonce_padding.val) THEN Err("IncorrectLength")
        ELSE IF ~ciphertext.ok THEN Err("IncorrectLength")
        ELSE IF Len(nonce_bytes.val) # 16 THEN Err("MalformedNonce")
        ELSE Ok([nonce |-> nonce_bytes.val, ciphertext |-> ciphertext.val])

MINIMUM_SIZE == 16

from_type_id(type_id) ==
    CASE type_id = 260 -> [kind |-> "UniqueIdentifier"]
      [] type_id = 516 -> [kind |-> "NtsCookie"]
      [] type_id = 772 -> [kind |-> "NtsCookiePlaceholder"]
      [] type_id = 1028 -> [kind |-> "NtsEncryptedField"]
      [] OTHER -> [kind |-> "Unknown", type_id |-> type_id]

wire_length(unparsed) == 4 + next_multiple_of(Len(unparsed.message_bytes), 4)

\* UnparsedExtensionField::deserialize without the minimum field length
UnparsedDeserialize_no_minimum(d) ==
    IF Len(d) < 4 \/ Len(d) % 4 # 0 THEN Err("IncorrectLength")
    ELSE LET type_id == U16FromBe(Slice(d, 0, 2))
             field_length == U16FromBe(Slice(d, 2, 4))
             value == Get(d, 4, field_length)
         IN  IF ~value.ok THEN Err("IncorrectLength")
             ELSE IF AnyNonZero(Slice(d, field_length, next_multiple_of(field_length, 4)))
                  THEN Err("IncorrectLength")
             ELSE Ok([type_id |-> from_type_id(type_id), message_bytes |-> value.val])

\* UnparsedExtensionField::deserialize
\* UnparsedExtensionField::deserialize taking data of any length
UnparsedDeserialize_unaligned(d) ==
    IF Len(d) < 4 THEN Err("IncorrectLength")
    ELSE LET type_id == U16FromBe(Slice(d, 0, 2))
             field_length == U16FromBe(Slice(d, 2, 4))
             value == Get(d, 4, field_length)
         IN  IF field_length < MINIMUM_SIZE THEN Err("IncorrectLength")
             ELSE IF ~value.ok THEN Err("IncorrectLength")
             ELSE IF next_multiple_of(field_length, 4) > Len(d) THEN Panicked
             ELSE IF AnyNonZero(Slice(d, field_length, next_multiple_of(field_length, 4)))
                  THEN Err("IncorrectLength")
             ELSE Ok([type_id |-> from_type_id(type_id), message_bytes |-> value.val])

\* the range of the padding, data[field_length..next_multiple_of(field_length, 4)],
\* panics when it passes the end of data
UnparsedDeserialize(d) ==
    IF Len(d) < 4 \/ Len(d) % 4 # 0 THEN Err("IncorrectLength")
    ELSE LET type_id == U16FromBe(Slice(d, 0, 2))
             field_length == U16FromBe(Slice(d, 2, 4))
             value == Get(d, 4, field_length)
         IN  IF field_length < MINIMUM_SIZE THEN Err("IncorrectLength")
             ELSE IF ~value.ok THEN Err("IncorrectLength")
             ELSE IF next_multiple_of(field_length, 4) > Len(d) THEN Panicked
             ELSE IF AnyNonZero(Slice(d, field_length, next_multiple_of(field_length, 4)))
                  THEN Err("IncorrectLength")
             ELSE Ok([type_id |-> from_type_id(type_id), message_bytes |-> value.val])

None == [some |-> FALSE]

Some(v) == [some |-> TRUE, v |-> v]

decode_basic_field(unparsed) ==
    LET message == unparsed.message_bytes
        kind == unparsed.type_id.kind
        field == CASE kind = "UniqueIdentifier" -> decode_unique_identifier(message)
                   [] kind = "NtsCookie" -> decode_nts_cookie(message)
                   [] kind = "NtsCookiePlaceholder" -> decode_nts_cookie_placeholder(message)
                   [] kind = "Unknown" -> decode_unknown(unparsed.type_id.type_id, message)
    IN  IF kind = "NtsEncryptedField" THEN Ok(None)
        ELSE IF ~field.ok THEN field
        ELSE Ok(Some(field.val))

(***************************************************************************)
(* Legacy MAC trailer.                                                      *)
(***************************************************************************)
MAXIMUM_SIZE == 28

MacSerialize(m) == U32ToBe(m.keyid) \o m.mac

\* MacDeserialize accepting a trailer of exactly MAXIMUM_SIZE octets
MacDeserialize_inclusive(d) ==
    IF Len(d) < 4 \/ Len(d) > MAXIMUM_SIZE THEN Err("IncorrectLength")
    ELSE Ok([keyid |-> U32FromBe(Slice(d, 0, 4)), mac |-> Slice(d, 4, Len(d))])

MacDeserialize(d) ==
    IF Len(d) < 4 \/ Len(d) >= MAXIMUM_SIZE THEN Err("IncorrectLength")
    ELSE Ok([keyid |-> U32FromBe(Slice(d, 0, 4)), mac |-> Slice(d, 4, Len(d))])

(***************************************************************************)
(* Extension-field container: ExtensionFieldData.                           *)
(***************************************************************************)
EfDefault == [authenticated |-> <<>>, encrypted |-> <<>>, untrusted |-> <<>>]

\* b"any odd nonce$$$"
SerializeNonce == <<97, 110, 121, 32, 111, 100, 100, 32, 110, 111, 110, 99, 101, 36, 36, 36>>

\* ExtensionFieldData::serialize writing a container whatever the fields
EfSerializeFrom_always(ef, w1, key) ==
    The({[w |-> w1 \o sealed.bytes \o FieldsSerialize(ef.untrusted),
          calls |-> <<sealed.call>>] :
            sealed \in {encode_encryped(w1, ef.encrypted, key, SerializeNonce)}})

\* ExtensionFieldData::serialize: w is the cursor's buffer up to its
\* position; the result is the buffer after the call and the encrypt calls
EfSerializeFrom(ef, w1, key) ==
    IF ef.authenticated # <<>> \/ ef.encrypted # <<>>
    THEN The({[w |-> w1 \o sealed.bytes \o FieldsSerialize(ef.untrusted),
               calls |-> <<sealed.call>>] :
                 sealed \in {encode_encryped(w1, ef.encrypted, key, SerializeNonce)}})
    ELSE [w |-> w1 \o FieldsSerialize(ef.untrusted), calls |-> <<>>]

EfSerialize(ef, w, key) ==
    The({EfSerializeFrom(ef, w1, key) : w1 \in {w \o FieldsSerialize(ef.authenticated)}})

\* one turn of the first loop of ExtensionFieldData::deserialize, the frame
\* at offset being unparsed; the result holds the untrusted fields so far,
\* the offset, and the encrypted field if one was met:
\* Some([field, packet_so_far])
RECURSIVE EfLoopBefore(_, _, _)
EfStepBefore(d, offset, untrusted, unparsed) ==
    IF ~unparsed.ok THEN unparsed
    ELSE The({IF ~basic.ok THEN basic
              ELSE IF ~basic.val.some
                   THEN The({IF ~enc.ok THEN enc
                             ELSE Ok([untrusted |-> untrusted,
                                      offset |-> offset + wire_length(unparsed.val),
                                      encrypted_field |-> Some([field |-> enc.val,
                                                                packet_so_far |-> Slice(d, 0, offset)])]) :
                               enc \in {from_message_bytes(unparsed.val.message_bytes)}})
              ELSE The({EfLoopBefore(d, o, u) :
                          o \in {offset + wire_length(unparsed.val)},
                          u \in {Append(untrusted, basic.val.v)}}) :
                basic \in {decode_basic_field(unparsed.val)}})

\* the first loop of ExtensionFieldData::deserialize
EfLoopBefore(d, offset, untrusted) ==
    IF ~(Len(d) - offset >= MAXIMUM_SIZE)
    THEN Ok([untrusted |-> untrusted, offset |-> offset, encrypted_field |-> None])
    ELSE The({EfStepBefore(d, offset, untrusted, unparsed) :
                unparsed \in {UnparsedDeserialize(Slice(d, offset, Len(d)))}})

\* the loop over the decrypted plaintext
RECURSIVE EfLoopPlaintext(_, _, _)
EfStepPlaintext(plaintext, offset, encrypted, unparsed) ==
    IF ~unparsed.ok THEN unparsed
    ELSE The({IF ~basic.ok THEN basic
              ELSE IF ~basic.val.some THEN Err("MalformedNtsExtensionFields")
              ELSE The({EfLoopPlaintext(plaintext, o, e) :
                          o \in {offset + wire_length(unparsed.val)},
                          e \in {Append(encrypted, basic.val.v)}}) :
                basic \in {decode_basic_field(unparsed.val)}})

EfLoopPlaintext(plaintext, offset, encrypted) ==
    IF ~(offset < Len(plaintext)) THEN Ok(encrypted)
    ELSE The({EfStepPlaintext(plaintext, offset, encrypted, unparsed) :
                unparsed \in {UnparsedDeserialize(Slice(plaintext, offset, Len(plaintext)))}})

\* the last loop, over the fields after the encrypted field
RECURSIVE EfLoopAfter(_, _, _)
\* EfStepAfter skipping a second encrypted field instead of failing
EfStepAfter_skipping(d, offset, untrusted, unparsed) ==
    IF ~unparsed.ok THEN unparsed
    ELSE The({IF ~basic.ok THEN basic
              ELSE The({EfLoopAfter(d, o, u) :
                          o \in {offset + wire_length(unparsed.val)},
                          u \in {IF basic.val.some THEN Append(untrusted, basic.val.v)
                                  ELSE untrusted}}) :
                basic \in {decode_basic_field(unparsed.val)}})

EfStepAfter(d, offset, untrusted, unparsed) ==
    IF ~unparsed.ok THEN unparsed
    ELSE The({IF ~basic.ok THEN basic
              ELSE IF ~basic.val.some THEN Err("MalformedNtsExtensionFields")
              ELSE The({EfLoopAfter(d, o, u) :
                          o \in {offset + wire_length(unparsed.val)},
                          u \in {Append(untrusted, basic.val.v)}}) :
                basic \in {decode_basic_field(unparsed.val)}})

EfLoopAfter(d, offset, untrusted) ==
    IF ~(Len(d) - offset >= MAXIMUM_SIZE)
    THEN Ok([untrusted |-> untrusted, offset |-> offset])
    ELSE The({EfStepAfter(d, offset, untrusted, unparsed) :
                unparsed \in {UnparsedDeserialize(Slice(d, offset, Len(d)))}})

\* a result together with the decrypt calls made on the way to it
Logged(r, calls) == [ok |-> r.ok, err |-> r.err, val |-> r.val, aead |-> calls]

\* the end of ExtensionFieldData::deserialize: the last loop, from the
\* fields gathered so far
EfFinish(d, offset, this, calls) ==
    The({IF ~after.ok THEN Logged(after, calls)
         ELSE Logged(Ok([efdata |-> [this EXCEPT !.untrusted = after.val.untrusted],
                         offset |-> after.val.offset]), calls) :
           after \in {EfLoopAfter(d, offset, this.untrusted)}})

\* EfDecrypt leaving the fields before the container in untrusted
EfDecrypt_unpromoted(d, offset, untrusted, met, key) ==
    The({The({IF ~plain.ok THEN Logged(Err("DecryptError"), <<call>>)
              ELSE The({IF ~inner.ok THEN Logged(inner, <<call>>)
                        ELSE EfFinish(d, offset,
                                      [authenticated |-> <<>>,
                                       encrypted |-> inner.val,
                                       untrusted |-> untrusted],
                                      <<call>>) :
                          inner \in {EfLoopPlaintext(plain.val, 0, <<>>)}}) :
                call \in {[aad |-> met.packet_so_far, nonce |-> met.field.nonce,
                           msg |-> met.field.ciphertext, ok |-> plain.ok]}}) :
           plain \in {CipherDecrypt(key, met.field.nonce, met.packet_so_far, met.field.ciphertext)}})

\* EfDecrypt going on without authentication when decryption fails
EfDecrypt_lenient(d, offset, untrusted, met, key) ==
    The({The({IF ~plain.ok
              THEN EfFinish(d, offset,
                            [authenticated |-> <<>>, encrypted |-> <<>>,
                             untrusted |-> untrusted],
                            <<call>>)
              ELSE The({IF ~inner.ok THEN Logged(inner, <<call>>)
                        ELSE EfFinish(d, offset,
                                      [authenticated |-> untrusted,
                                       encrypted |-> inner.val,
                                       untrusted |-> <<>>],
                                      <<call>>) :
                          inner \in {EfLoopPlaintext(plain.val, 0, <<>>)}}) :
                call \in {[aad |-> met.packet_so_far, nonce |-> met.field.nonce,
                           msg |-> met.field.ciphertext, ok |-> plain.ok]}}) :
           plain \in {CipherDecrypt(key, met.field.nonce, met.packet_so_far, met.field.ciphertext)}})

\* the middle of ExtensionFieldData::deserialize: the encrypted field met
\* by the first loop is decrypted and its plaintext parsed
EfDecrypt(d, offset, untrusted, met, key) ==
    The({The({IF ~plain.ok THEN Logged(Err("DecryptError"), <<call>>)
              ELSE The({IF ~inner.ok THEN Logged(inner, <<call>>)
                        ELSE EfFinish(d, offset,
                                      [authenticated |-> untrusted,
                                       encrypted |-> inner.val,
                                       untrusted |-> <<>>],
                                      <<call>>) :
                          inner \in {EfLoopPlaintext(plain.val, 0, <<>>)}}) :
                call \in {[aad |-> met.packet_so_far, nonce |-> met.field.nonce,
                           msg |-> met.field.ciphertext, ok |-> plain.ok]}}) :
           plain \in {CipherDecrypt(key, met.field.nonce, met.packet_so_far, met.field.ciphertext)}})

\* EfDeserialize promoting the parsed fields although no encrypted field
\* was met
EfDeserialize_promoting(d, header_size, key) ==
    The({IF ~before.ok THEN Logged(before, <<>>)
         ELSE IF before.val.encrypted_field.some
              THEN EfDecrypt(d, before.val.offset, before.val.untrusted,
                             before.val.encrypted_field.v, key)
         ELSE EfFinish(d, before.val.offset,
                       [authenticated |-> before.val.untrusted, encrypted |-> <<>>,
                        untrusted |-> <<>>],
                       <<>>) :
           before \in {EfLoopBefore(d, header_size, <<>>)}})

\* ExtensionFieldData::deserialize; val is [efdata, offset]
EfDeserialize(d, header_size, key) ==
    The({IF ~before.ok THEN Logged(before, <<>>)
         ELSE IF before.val.encrypted_field.some
              THEN EfDecrypt(d, before.val.offset, before.val.untrusted,
                             before.val.encrypted_field.v, key)
         ELSE EfFinish(d, before.val.offset,
                       [authenticated |-> <<>>, encrypted |-> <<>>,
                        untrusted |-> before.val.untrusted],
                       <<>>) :
           before \in {EfLoopBefore(d, header_size, <<>>)}})

(***************************************************************************)
(* Packet facade: NtpPacket.                                                *)
(***************************************************************************)
\* the MAC trailer of NtpPacket::deserialize, after end octets
PacketWithMac(d, header, efdata, end, calls) ==
    IF end # Len(d)
    THEN The({IF ~mac.ok THEN Logged(mac, calls)
              ELSE Logged(Ok([header |-> header, efdata |-> efdata, mac |-> Some(mac.val)]), calls) :
                mac \in {MacDeserialize(Slice(d, end, Len(d)))}})
    ELSE Logged(Ok([header |-> header, efdata |-> efdata, mac |-> None]), calls)

\* the version 3 arm of NtpPacket::deserialize
DeserializeV3(d) ==
    The({IF ~header.ok THEN Logged(header, <<>>)
         ELSE PacketWithMac(d, [version |-> "V3", h |-> header.val], EfDefault,
                            HeaderLength, <<>>) :
           header \in {HeaderDeserialize(d)}})

\* the version 4 arm of NtpPacket::deserialize
DeserializeV4(d, key) ==
    The({IF ~header.ok THEN Logged(header, <<>>)
         ELSE The({IF ~fields.ok THEN fields
                   ELSE PacketWithMac(d, [version |-> "V4", h |-> header.val],
                                      fields.val.efdata, fields.val.offset, fields.aead) :
                     fields \in {EfDeserialize(d, HeaderLength, key)}}) :
           header \in {HeaderDeserialize(d)}})

\* NtpPacketDeserialize reading the version without the mask 0x38
NtpPacketDeserialize_unmasked(d, key) ==
    IF d = <<>> THEN Logged(Err("IncorrectLength"), <<>>)
    ELSE LET version == d[1] \div 8
         IN  CASE version = 3 -> DeserializeV3(d)
               [] version = 4 -> DeserializeV4(d, key)
               [] OTHER -> Logged(ErrInvalidVersion(version), <<>>)

NtpPacketDeserialize(d, key) ==
    IF d = <<>> THEN Logged(Err("IncorrectLength"), <<>>)
    ELSE LET version == (d[1] \div 8) % 8
         IN  CASE version = 3 -> DeserializeV3(d)
               [] version = 4 -> DeserializeV4(d, key)
               [] OTHER -> Logged(ErrInvalidVersion(version), <<>>)

\* NtpPacket::serialize writing the extension fields of a V3 packet too
NtpPacketSerialize_v3_fields(p, w, key) ==
    The({[w |-> IF p.mac.some THEN ef.w \o MacSerialize(p.mac.v) ELSE ef.w,
          calls |-> ef.calls] :
           ef \in {EfSerialize(p.efdata,
                               w \o HeaderSerialize(p.header.h,
                                                    IF p.header.version = "V3" THEN 3 ELSE 4),
                               key)}})

\* NtpPacket::serialize: w is the cursor's buffer up to its position
NtpPacketSerialize(p, w, key) ==
    The({[w |-> IF p.mac.some THEN ef.w \o MacSerialize(p.mac.v) ELSE ef.w,
          calls |-> ef.calls] :
           ef \in {IF p.header.version = "V3"
                   THEN [w |-> w \o HeaderSerialize(p.header.h, 3), calls |-> <<>>]
                   ELSE EfSerialize(p.efdata, w \o HeaderSerialize(p.header.h, 4), key)}})

NtpPacketDeserializeWithoutDecryption(d) == NtpPacketDeserialize(d, ZeroKey)

\* serialize_without_encryption leaving the extension fields out
NtpPacketSerializeWithoutEncryption_bare(p, w) ==
    NtpPacketSerialize([p EXCEPT !.efdata = EfDefault], w, ZeroKey)

NtpPacketSerializeWithoutEncryption(p, w) == NtpPacketSerialize(p, w, ZeroKey)

(***************************************************************************)
(* Requests and responses.  PollInterval, SystemSnapshot, ReferenceId and  *)
(* the clock live outside packet.rs: a poll interval is its log2 value, a  *)
(* system snapshot a record of the fields read here, the clock the         *)
(* timestamp its now() returns.  The random transmit timestamp of a poll   *)
(* is a parameter of the builders.                                          *)
(***************************************************************************)
NtpDurationDefault == <<0, 0>>

NtpTimestampDefault == <<0, 0, 0, 0>>

ReferenceIdFromInt(n) == <<n \div 65536, n % 65536>>

\* ReferenceId::KISS_RATE, b"RATE"
KISS_RATE == ReferenceIdFromBytes(<<82, 65, 84, 69>>)

\* ReferenceId::KISS_DENY, b"DENY"
KISS_DENY == ReferenceIdFromBytes(<<68, 69, 78, 89>>)

\* ReferenceId::KISS_RSTR, b"RSTR"
KISS_RSTR == ReferenceIdFromBytes(<<82, 83, 84, 82>>)

\* ReferenceId::KISS_NTSN, b"NTSN"
KISS_NTSN == ReferenceIdFromBytes(<<78, 84, 83, 78>>)

is_rate(r) == r = KISS_RATE

is_deny(r) == r = KISS_DENY

is_rstr(r) == r = KISS_RSTR

is_ntsn(r) == r = KISS_NTSN

\* PollInterval::as_log
as_log(poll_interval) == poll_interval.log

\* NtpDuration::log2 of the precision of a time snapshot
log2(duration) == duration.log2

\* NtpHeaderV3V4::new
HeaderNew ==
    [leap |-> "NoWarning",
     mode |-> "Client",
     stratum |-> 0,
     poll |-> 0,
     precision |-> 0,
     root_delay |-> NtpDurationDefault,
     root_dispersion |-> NtpDurationDefault,
     reference_id |-> ReferenceIdFromInt(0),
     reference_timestamp |-> NtpTimestampDefault,
     origin_timestamp |-> NtpTimestampDefault,
     receive_timestamp |-> NtpTimestampDefault,
     transmit_timestamp |-> NtpTimestampDefault]

\* NtpHeaderV3V4::poll_message; gen is the value thread_rng().gen() returns
HeaderPollMessage(poll_interval, gen) ==
    [packet |-> [HeaderNew EXCEPT !.poll = as_log(poll_interval),
                                  !.mode = "Client",
                                  !.transmit_timestamp = gen],
     id |-> [expected_origin_timestamp |-> gen]]

\* NtpHeaderV3V4::timestamp_response taking the leap indicator, the
\* reference timestamp and the precision from the input header
HeaderTimestampResponse_echoing(system, h, recv_timestamp, now) ==
    [h EXCEPT !.mode = "Server",
              !.stratum = system.stratum,
              !.origin_timestamp = h.transmit_timestamp,
              !.receive_timestamp = recv_timestamp,
              !.reference_id = system.reference_id,
              !.root_delay = system.time_snapshot.root_delay,
              !.root_dispersion = system.time_snapshot.root_dispersion,
              !.transmit_timestamp = now]

\* NtpHeaderV3V4::timestamp_response; now is the value clock.now() returns
HeaderTimestampResponse(system, h, recv_timestamp, now) ==
    [HeaderNew EXCEPT !.mode = "Server",
                      !.stratum = system.stratum,
                      !.origin_timestamp = h.transmit_timestamp,
                      !.receive_timestamp = recv_timestamp,
                      !.reference_id = system.reference_id,
                      !.poll = h.poll,
                      !.precision = log2(system.time_snapshot.precision),
                      !.root_delay = system.time_snapshot.root_delay,
                      !.root_dispersion = system.time_snapshot.root_dispersion,
                      !.transmit_timestamp = now]

\* NtpHeaderV3V4::rate_limit_response keeping the stratum of the client
HeaderRateLimitResponse_stratum(packet_from_client) ==
    [HeaderNew EXCEPT !.mode = "Server",
                      !.stratum = packet_from_client.stratum,
                      !.reference_id = KISS_RATE,
                      !.origin_timestamp = packet_from_client.transmit_timestamp]

\* NtpHeaderV3V4::rate_limit_response
HeaderRateLimitResponse(packet_from_client) ==
    [HeaderNew EXCEPT !.mode = "Server",
                      !.stratum = 0,
                      !.reference_id = KISS_RATE,
                      !.origin_timestamp = packet_from_client.transmit_timestamp]

\* NtpHeaderV3V4::deny_response
HeaderDenyResponse(packet_from_client) ==
    [HeaderNew EXCEPT !.mode = "Server",
                      !.stratum = 0,
                      !.reference_id = KISS_DENY,
                      !.origin_timestamp = packet_from_client.transmit_timestamp]

\* the placeholders pushed by the loop of
\* nts_poll_message_request_extra_cookies
Placeholders(cookie, request_extra_cookies) ==
    [i \in 1..request_extra_cookies |-> NtsCookiePlaceholder(AsU16(Len(cookie)))]

\* NtpPacket::nts_poll_message_request_extra_cookies
nts_poll_message_request_extra_cookies(identifier, cookie, request_extra_cookies, poll_interval, gen) ==
    LET polled == HeaderPollMessage(poll_interval, gen)
        authenticated == <<UniqueIdentifier(identifier), NtsCookie(cookie)>>
                         \o Placeholders(cookie, request_extra_cookies)
    IN  [packet |-> [header |-> [version |-> "V4", h |-> polled.packet],
                     efdata |-> [authenticated |-> authenticated,
                                 encrypted |-> <<>>,
                                 untrusted |-> <<>>],
                     mac |-> None],
         id |-> polled.id]

\* NtpPacket::nts_poll_message
nts_poll_message(identifier, cookie, poll_interval, gen) ==
    nts_poll_message_request_extra_cookies(identifier, cookie, 0, poll_interval, gen)

\* NtpPacket::poll_message
poll_message(poll_interval, gen) ==
    LET polled == HeaderPollMessage(poll_interval, gen)
    IN  [packet |-> [header |-> [version |-> "V4", h |-> polled.packet],
                     efdata |-> EfDefault,
                     mac |-> None],
         id |-> polled.id]

\* NtpPacket::timestamp_response
timestamp_response(system, packet, recv_timestamp, now) ==
    [header |-> [version |-> packet.header.version,
                 h |-> HeaderTimestampResponse(system, packet.header.h, recv_timestamp, now)],
     efdata |-> EfDefault,
     mac |-> None]

\* NtpPacket::rate_limit_response
rate_limit_response(packet_from_client) ==
    [header |-> [version |-> packet_from_client.header.version,
                 h |-> HeaderRateLimitResponse(packet_from_client.header.h)],
     efdata |-> EfDefault,
     mac |-> None]

\* NtpPacket::deny_response
deny_response(packet_from_client) ==
    [header |-> [version |-> packet_from_client.header.version,
                 h |-> HeaderDenyResponse(packet_from_client.header.h)],
     efdata |-> EfDefault,
     mac |-> None]

reference_id(p) == p.header.h.reference_id

is_kiss(p) == p.header.h.stratum = 0

is_kiss_deny(p) == is_kiss(p) /\ is_deny(reference_id(p))

is_kiss_rate(p) == is_kiss(p) /\ is_rate(reference_id(p))

is_kiss_rstr(p) == is_kiss(p) /\ is_rstr(reference_id(p))

is_kiss_ntsn(p) == is_kiss(p) /\ is_ntsn(reference_id(p))

\* NtpPacket::set_leap
set_leap(p, leap) == [p EXCEPT !.header.h.leap = leap]

\* NtpPacket::set_mode
set_mode(p, mode) == [p EXCEPT !.header.h.mode = mode]

\* NtpPacket::valid_server_response comparing the transmit timestamp
valid_server_response_transmit(p, identifier) ==
    p.header.h.transmit_timestamp = identifier.expected_origin_timestamp

\* NtpPacket::valid_server_response
valid_server_response(p, identifier) ==
    p.header.h.origin_timestamp = identifier.expected_origin_timestamp

(***************************************************************************)
(* Received datagrams.  A datagram is laid out by a sender from a layout:  *)
(* the first octet and the rest of the header, the frames before the       *)
(* encrypted container, the container (its nonce, the frames sealed in it, *)
(* the sealing key), the frames after it and the trailer.  This is the     *)
(* wire format written out independently of the serializer above, so that  *)
(* what the parser returns can be compared with what was put on the wire.  *)
(***************************************************************************)
\* octets 1..47 of the captured client packet of tests::test_captured_client
CapturedTail ==
    <<2, 6, 232, 0, 0, 3, 255, 0, 0, 3, 125, 94, 198, 159, 15,
      229, 246, 98, 152, 123, 97, 185, 175, 229, 246, 99, 102, 123, 100, 153, 93,
      229, 246, 99, 102, 129, 64, 85, 144, 229, 246, 99, 168, 118, 29, 222, 72>>

\* a frame: type id, body, and the pattern its padding octets are taken from
Frame(id, body, pad) == [type_id |-> id, body |-> body, pad |-> pad]

\* n padding octets after len octets, taken from a pattern
Padding(len, pattern) == SubSeq(pattern, 1, next_multiple_of(len, 4) - len)

FramePadding(f) == Padding(Len(f.body), f.pad)

WireFrame(f) ==
    U16ToBe(f.type_id) \o U16ToBe(4 + Len(f.body)) \o f.body \o FramePadding(f)

RECURSIVE WireFrames(_)
WireFrames(fs) == IF fs = <<>> THEN <<>> ELSE WireFrame(Head(fs)) \o WireFrames(Tail(fs))

WirePlaintext(l) == WireFrames(l.inner) \o l.ptTail

\* the container as encode_encryped lays it out: the field length covers
\* the nonce, the ciphertext and the padding of both
WireSealed(l, ct) ==
    LET npad == Padding(Len(l.nonce), l.noncePad)
        cpad == Padding(Len(ct), l.ctPad)
    IN  U16ToBe(1028) \o U16ToBe(8 + Len(l.nonce) + Len(npad) + Len(ct) + Len(cpad))
        \o U16ToBe(Len(l.nonce)) \o U16ToBe(Len(ct))
        \o l.nonce \o npad \o ct \o cpad

WireContainer(l, aad) ==
    The({WireSealed(l, ct) : ct \in {CipherEncrypt(l.sealKey, l.nonce, aad, WirePlaintext(l))}})

WirePrefix(l) == <<l.first>> \o l.tail \o WireFrames(l.pre)

Wire(l) ==
    The({prefix \o (IF l.container THEN WireContainer(l, prefix) ELSE <<>>)
         \o WireFrames(l.post) \o l.trailer :
           prefix \in {WirePrefix(l)}})

\* the extension field a well-formed frame stands for (the type id table)
FrameField(f) ==
    CASE f.type_id = 260 -> UniqueIdentifier(f.body)
      [] f.type_id = 516 -> NtsCookie(f.body)
      [] f.type_id = 772 -> NtsCookiePlaceholder(Len(f.body))
      [] OTHER -> Unknown(f.type_id, f.body)

FrameFields(fs) == [i \in 1..Len(fs) |-> FrameField(fs[i])]

IsContainerFrame(f) == f.type_id = 1028

BadPadding(f) == AnyNonZero(FramePadding(f))

\* octets from the start of frame i of the frames after the container to
\* the end of the datagram
RECURSIVE WireLengthFrom(_, _)
WireLengthFrom(fs, i) ==
    IF i > Len(fs) THEN 0 ELSE Len(WireFrame(fs[i])) + WireLengthFrom(fs, i + 1)

Remaining(l, i) == WireLengthFrom(l.post, i) + Len(l.trailer)

\* the number of frames after the container that lie in the part of the
\* datagram read as extension fields: frame i does when at least 28 octets
\* remain at its start
RECURSIVE FieldsAfter(_, _)
FieldsAfter(l, i) ==
    IF i <= Len(l.post) /\ Remaining(l, i) >= 28 THEN FieldsAfter(l, i + 1) ELSE i - 1

PostFields(l) == SubSeq(l.post, 1, FieldsAfter(l, 1))

\* the octets after the frames read as extension fields
PostTrailer(l) ==
    LET w == WireFrames(l.post) \o l.trailer
    IN  SubSeq(w, Len(w) - Remaining(l, FieldsAfter(l, 1) + 1) + 1, Len(w))

\* where the container lies in the datagram (1-based octet positions)
ContainerStart(l) == Len(WirePrefix(l)) + 1

ContainerEnd(l) == Len(Wire(l)) - Len(WireFrames(l.post)) - Len(l.trailer)

(***************************************************************************)
(* The frames and layouts the datagrams are drawn from.                     *)
(***************************************************************************)
Bytes(n, b) == [i \in 1..n |-> (b + i) % 256]

FrameIdentifier == Frame(260, Bytes(32, 0), Zeros(3))

FrameCookie == Frame(516, Bytes(14, 64), Zeros(3))

FramePlaceholder == Frame(772, Zeros(12), Zeros(3))

FrameUnknown == Frame(1285, Bytes(13, 128), Zeros(3))

\* a well-formed frame of the encrypted-container type
FrameSecond == Frame(1028, Bytes(12, 32), Zeros(3))

OtherNonce == Bytes(16, 200)

ShortNonce == Bytes(13, 200)

MaxFields == 3

MaxTrailer == 30

Keys == {1, 2}

FrameSeqs(S, n) == UNION {[1..k -> S] : k \in 0..n}

Menu == {FrameIdentifier, FramePlaceholder, FrameUnknown}

Trailers == {<<>>, Bytes(12, 16)}

\* a version-4 client packet with nothing after the header
BaseLayout ==
    [first |-> 35, tail |-> CapturedTail, pre |-> <<>>, container |-> FALSE, sealKey |-> 1,
     nonce |-> SerializeNonce, noncePad |-> Zeros(3), inner |-> <<>>, ptTail |-> <<>>,
     ctPad |-> Zeros(3), post |-> <<>>, trailer |-> <<>>]

FieldCount(l) == Len(l.pre) + Len(l.inner) + Len(l.post)

\* NTS datagrams: a version-4 header, frames, one sealed container
NtsLayoutsWith(a, b) ==
    {[BaseLayout EXCEPT !.container = TRUE, !.pre = a, !.inner = b, !.post = c,
                        !.nonce = n, !.trailer = t] :
        c \in FrameSeqs(Menu \cup {FrameSecond}, MaxFields - Len(a) - Len(b)),
        n \in {SerializeNonce, OtherNonce},
        t \in Trailers}

NtsLayouts ==
    UNION {UNION {NtsLayoutsWith(a, b) :
                    b \in FrameSeqs(Menu \cup {FrameSecond}, MaxFields - Len(a))} :
             a \in FrameSeqs(Menu, MaxFields)}

\* datagrams without a container: version 3 or 4, frames, trailer
PlainLayouts ==
    {[BaseLayout EXCEPT !.first = f, !.post = c, !.trailer = t] :
        f \in {35, 27, 228},
        c \in FrameSeqs(Menu \cup {FrameCookie}, MaxFields),
        t \in Trailers}

Layouts == NtsLayouts \cup PlainLayouts

NoResult == [ok |-> FALSE, err |-> <<"none">>, val |-> <<>>, aead |-> <<>>]

NoWritten == [bytes |-> <<>>, calls |-> <<>>]

NoPacket == [header |-> [version |-> "none", h |-> <<>>], efdata |-> <<>>, mac |-> None]

\* no request has been built
NoExchange ==
    /\ request = NoPacket
    /\ requestId = <<>>
    /\ served = NoPacket
    /\ server = <<>>
    /\ response = NoPacket

\* what the cursor's buffer holds before its position when serialize is
\* called: nothing (position 0), or octets written earlier
Cursors == {<<>>, <<222, 173, 190, 239>>}

(***************************************************************************)
(* The codec at work: a datagram is received and parsed; the parsed packet *)
(* is serialized into a cursor; the octets written are parsed again.       *)
(***************************************************************************)
Start(L) ==
    /\ lay \in L
    /\ data = Wire(lay)
    /\ cipher \in Keys
    /\ tampered = 0
    /\ pc = "input"
    /\ parsed = NoResult
    /\ cursor = <<>>
    /\ written = NoWritten
    /\ reparsed = NoResult
    /\ NoExchange

Init == Start(Layouts)

Receive ==
    /\ pc = "input"
    /\ parsed' = NtpPacketDeserialize(data, cipher)
    /\ pc' = "parsed"
    /\ UNCHANGED <<lay, data, cipher, tampered, cursor, written, reparsed>>
    /\ UNCHANGED exchange

Send ==
    /\ pc = "parsed"
    /\ parsed.ok
    /\ \E c \in Cursors :
          \E out \in {NtpPacketSerialize(parsed.val, c, cipher)} :
              /\ cursor' = c
              /\ written' = [bytes |-> Slice(out.w, Len(c), Len(out.w)), calls |-> out.calls]
    /\ pc' = "written"
    /\ UNCHANGED <<lay, data, cipher, tampered, parsed, reparsed>>
    /\ UNCHANGED exchange

Reparse ==
    /\ pc = "written"
    /\ reparsed' = NtpPacketDeserialize(written.bytes, cipher)
    /\ pc' = "reparsed"
    /\ UNCHANGED <<lay, data, cipher, tampered, parsed, cursor, written>>
    /\ UNCHANGED exchange

Next == Receive \/ Send \/ Reparse

Spec == Init /\ [][Next]_vars

(***************************************************************************)
(* A datagram altered on the way: one octet of an NTS datagram, at or      *)
(* before the end of its container, is replaced before it is received.     *)
(***************************************************************************)
\* the values an octet is altered to: the next value, and the number of
\* octets that follow the header
TamperValues(d, i) == {(d[i] + 1) % 256, (Len(d) - HeaderLength) % 256} \ {d[i]}

TamperLayouts ==
    {l \in NtsLayouts : /\ FieldCount(l) < MaxFields
                        /\ Len(l.inner) <= 1
                        /\ Len(l.post) <= 1
                        /\ l.nonce = SerializeNonce}

InitTamper == Start(TamperLayouts)

Tamper ==
    /\ pc = "input"
    /\ tampered = 0
    /\ cipher = lay.sealKey
    /\ \E i \in 1..ContainerEnd(lay) :
          \E v \in TamperValues(data, i) :
              /\ data' = [data EXCEPT ![i] = v]
              /\ tampered' = i
    /\ UNCHANGED <<lay, cipher, pc, parsed, cursor, written, reparsed>>
    /\ UNCHANGED exchange

NextTamper == Tamper \/ Receive \/ Send \/ Reparse

SpecTamper == InitTamper /\ [][NextTamper]_vars

(***************************************************************************)
(* Datagrams of every version: every first octet, three header contents,   *)
(* with or without a trailer, whole or cut short.                           *)
(***************************************************************************)
Tails == {CapturedTail, Zeros(47), Fill(47, 255)}

VersionLayouts ==
    {[BaseLayout EXCEPT !.first = f, !.tail = t, !.trailer = m] :
        f \in 0..255, t \in Tails, m \in Trailers}

CutLengths == {1, 20, 47}

InitVersion ==
    /\ lay \in VersionLayouts
    /\ data \in {Wire(lay)} \cup {SubSeq(Wire(lay), 1, n) : n \in CutLengths}
    /\ cipher \in Keys
    /\ tampered = 0
    /\ pc = "input"
    /\ parsed = NoResult
    /\ cursor = <<>>
    /\ written = NoWritten
    /\ reparsed = NoResult
    /\ NoExchange

SpecVersion == InitVersion /\ [][Next]_vars

(***************************************************************************)
(* Datagrams with a trailer of every length up to MaxTrailer, after a      *)
(* version-3 or version-4 header, with and without extension fields.       *)
(***************************************************************************)
MacLayouts ==
    {[BaseLayout EXCEPT !.first = f, !.container = e, !.post = c, !.trailer = Bytes(n, 16)] :
        f \in {27, 35},
        e \in BOOLEAN,
        c \in FrameSeqs({FrameIdentifier, FramePlaceholder}, 1),
        n \in 0..MaxTrailer}

InitMac == Start(MacLayouts)

SpecMac == InitMac /\ [][Next]_vars

(***************************************************************************)
(* Datagrams whose padding octets are not all zero: after a field body,    *)
(* after a nonce shorter than a word multiple, after a ciphertext.         *)
(***************************************************************************)
PadPatterns == {<<0, 0, 0>>, <<7, 0, 0>>, <<0, 0, 7>>}

PadFrames ==
    {Frame(1285, Bytes(13, 128), p) : p \in PadPatterns}
    \cup {Frame(516, Bytes(14, 64), p) : p \in PadPatterns}
    \cup {FramePlaceholder}

\* how the container is sealed: as the serializer does, with a 13-octet
\* nonce and its padding, or with a plaintext that leaves the ciphertext
\* padded
Seals ==
    {[nonce |-> SerializeNonce, noncePad |-> Zeros(3), ptTail |-> <<>>, ctPad |-> Zeros(3)]}
    \cup {[nonce |-> ShortNonce, noncePad |-> p, ptTail |-> <<>>, ctPad |-> Zeros(3)] :
            p \in PadPatterns}
    \cup {[nonce |-> SerializeNonce, noncePad |-> Zeros(3), ptTail |-> <<1>>, ctPad |-> p] :
            p \in PadPatterns}

PadLayoutsWith(a, b) ==
    {[BaseLayout EXCEPT !.container = TRUE, !.pre = a, !.inner = b, !.post = c,
                        !.nonce = x.nonce, !.noncePad = x.noncePad,
                        !.ptTail = x.ptTail, !.ctPad = x.ctPad] :
        c \in FrameSeqs(PadFrames, MaxFields - 1 - Len(a) - Len(b)),
        x \in Seals}

PadLayouts ==
    UNION {UNION {PadLayoutsWith(a, b) : b \in FrameSeqs(PadFrames, MaxFields - 1 - Len(a))} :
             a \in FrameSeqs(PadFrames, MaxFields - 1)}
    \cup {[BaseLayout EXCEPT !.post = c, !.trailer = t] :
            c \in FrameSeqs(PadFrames, MaxFields - 1), t \in Trailers}

InitPad == Start(PadLayouts)

SpecPad == InitPad /\ [][Next]_vars

(***************************************************************************)
(* Datagrams with frames shorter than the minimum field length, of every   *)
(* type id, before, inside and after the container, and with a frame that  *)
(* declares more octets than follow it.                                     *)
(***************************************************************************)
\* frames with an 8-octet body: field_length 12
ShortFrames == {Frame(t, Zeros(8), Zeros(3)) : t \in {260, 516, 772, 1028, 1285}}

ShortMenu == ShortFrames \cup {FramePlaceholder, FrameUnknown}

\* a frame of unknown type declaring 40 octets, with 32 present
OverlongFrame == U16ToBe(1285) \o U16ToBe(40) \o Bytes(28, 0)

\* a frame of unknown type declaring 20 octets, with 8 present
OverlongInner == U16ToBe(1285) \o U16ToBe(20) \o Bytes(4, 0)

ShortLayoutsWith(a, b) ==
    {[BaseLayout EXCEPT !.container = TRUE, !.pre = a, !.inner = b, !.post = c,
                        !.ptTail = p, !.trailer = t] :
        c \in FrameSeqs(ShortMenu, MaxFields - 1 - Len(a) - Len(b)),
        p \in {<<>>, OverlongInner},
        t \in Trailers \cup {OverlongFrame}}

ShortLayouts ==
    UNION {UNION {ShortLayoutsWith(a, b) : b \in FrameSeqs(ShortMenu, MaxFields - 1 - Len(a))} :
             a \in FrameSeqs(ShortMenu, MaxFields - 1)}
    \cup {[BaseLayout EXCEPT !.post = c, !.trailer = t] :
            c \in FrameSeqs(ShortMenu, MaxFields - 1), t \in Trailers \cup {OverlongFrame}}

InitShort == Start(ShortLayouts)

SpecShort == InitShort /\ [][Next]_vars

(***************************************************************************)
(* One extension field of each variant, with a body of every length up to  *)
(* MaxShortBody and of the lengths around 65535, is serialized.  The sum   *)
(* 4 + len as u16 is computed in u16: a build with overflow checks panics  *)
(* when it exceeds 65535, a build without them wraps around.               *)
(***************************************************************************)
MaxShortBody == 24

BodyLengths == 0..MaxShortBody \cup {65531, 65532, 65535}

\* a field, with the type id and the body it stands for
FieldLayouts ==
    {[field |-> UniqueIdentifier(Bytes(n, 0)), type_id |-> 260, body |-> Bytes(n, 0)] :
        n \in BodyLengths \cup {65536}}
    \cup {[field |-> NtsCookie(Bytes(n, 64)), type_id |-> 516, body |-> Bytes(n, 64)] :
             n \in BodyLengths \cup {65536}}
    \cup {[field |-> NtsCookiePlaceholder(n), type_id |-> 772, body |-> Zeros(n)] :
             n \in BodyLengths}
    \cup {[field |-> Unknown(1285, Bytes(n, 128)), type_id |-> 1285, body |-> Bytes(n, 128)] :
             n \in BodyLengths \cup {65536}}

InitField ==
    /\ lay \in FieldLayouts
    /\ data = <<>>
    /\ cipher = ZeroKey
    /\ tampered = 0
    /\ pc = "field"
    /\ parsed = NoResult
    /\ cursor = <<>>
    /\ written = NoWritten
    /\ reparsed = NoResult
    /\ NoExchange

\* the length a field's encoder adds 4 to, after the cast to u16
CastLength(f) ==
    IF f.variant = "NtsCookiePlaceholder" THEN AsU16(f.cookie_length) ELSE AsU16(Len(f.data))

\* ExtensionField::serialize in a build without overflow checks
SerializeField ==
    /\ pc = "field"
    /\ written' = [bytes |-> FieldSerialize(lay.field), calls |-> <<>>]
    /\ pc' = "written"
    /\ UNCHANGED <<lay, data, cipher, tampered, parsed, cursor, reparsed>>
    /\ UNCHANGED exchange

\* ExtensionField::serialize in a build with overflow checks
SerializeFieldChecked ==
    /\ pc = "field"
    /\ IF 4 + CastLength(lay.field) > 65535
       THEN /\ written' = [bytes |-> U16ToBe(lay.type_id), calls |-> <<>>]
            /\ pc' = "panicked"
       ELSE /\ written' = [bytes |-> FieldSerialize(lay.field), calls |-> <<>>]
            /\ pc' = "written"
    /\ UNCHANGED <<lay, data, cipher, tampered, parsed, cursor, reparsed>>
    /\ UNCHANGED exchange

NextField == SerializeField \/ SerializeFieldChecked

SpecField == InitField /\ [][NextField]_vars

(***************************************************************************)
(* The body of an encrypted container handed to the container decoder:     *)
(* two declared lengths followed by octets, of every length from the       *)
(* shortest body an extension field can have up to MaxBody.                 *)
(***************************************************************************)
MaxBody == 44

NonceLengths == {0, 12, 13, 15, 16, 17, 20, 65535}

CiphertextLengths == {0, 15, 16, 20, 65535}

\* the octets after the declared lengths: all zero, or none zero
BodyFills == {0, 7}

ContainerBodies ==
    [nonce_length : NonceLengths, ciphertext_length : CiphertextLengths,
     body_length : (MINIMUM_SIZE - 4)..MaxBody, fill : BodyFills]

ContainerBody(l) ==
    U16ToBe(l.nonce_length) \o U16ToBe(l.ciphertext_length) \o Fill(l.body_length - 4, l.fill)

InitNonce ==
    /\ lay \in ContainerBodies
    /\ data = ContainerBody(lay)
    /\ cipher = ZeroKey
    /\ tampered = 0
    /\ pc = "input"
    /\ parsed = NoResult
    /\ cursor = <<>>
    /\ written = NoWritten
    /\ reparsed = NoResult
    /\ NoExchange

\* the container decoder is applied to the body
DecodeContainer ==
    /\ pc = "input"
    /\ \E r \in {from_message_bytes(data)} :
          parsed' = [ok |-> r.ok, err |-> r.err, val |-> r.val, aead |-> <<>>]
    /\ pc' = "parsed"
    /\ UNCHANGED <<lay, data, cipher, tampered, cursor, written, reparsed>>
    /\ UNCHANGED exchange

NextNonce == DecodeContainer

SpecNonce == InitNonce /\ [][NextNonce]_vars

(***************************************************************************)
(* A client builds a request with one of the poll builders; a server      *)
(* answers a packet, the request or another one, with one of the response  *)
(* builders; the client serializes its request.                            *)
(***************************************************************************)
MaxExtraCookies == 2

\* the values thread_rng().gen() and the clocks return
Timestamps == {NtpTimestampDefault, <<58870, 25448, 31585, 47535>>, <<65535, 65535, 65535, 65535>>}

PollIntervals == {[log |-> 4], [log |-> 17]}

Identifiers == {Bytes(32, 0)}

CookieLengths == {0, 13, 16}

Cookies == {Bytes(n, 64) : n \in CookieLengths}

Systems ==
    {[stratum |-> 2, reference_id |-> <<49320, 1>>,
      time_snapshot |-> [precision |-> [log2 |-> -18], root_delay |-> <<0, 1311>>,
                         root_dispersion |-> <<1, 5>>]],
     [stratum |-> 0, reference_id |-> KISS_DENY,
      time_snapshot |-> [precision |-> [log2 |-> 0], root_delay |-> NtpDurationDefault,
                         root_dispersion |-> <<0, 9>>]],
     [stratum |-> 16, reference_id |-> ReferenceIdFromInt(0),
      time_snapshot |-> [precision |-> [log2 |-> -128], root_delay |-> <<65535, 65535>>,
                         root_dispersion |-> NtpDurationDefault]]}

\* a header none of whose fields has the value NtpHeaderV3V4::new gives it
BusyHeader(poll, transmit_timestamp) ==
    [leap |-> "Leap61",
     mode |-> "SymmetricActive",
     stratum |-> 5,
     poll |-> poll,
     precision |-> -20,
     root_delay |-> <<0, 77>>,
     root_dispersion |-> <<3, 0>>,
     reference_id |-> KISS_RSTR,
     reference_timestamp |-> <<1, 1, 1, 1>>,
     origin_timestamp |-> <<2, 2, 2, 2>>,
     receive_timestamp |-> <<3, 3, 3, 3>>,
     transmit_timestamp |-> transmit_timestamp]

\* packets a server receives from other clients
OtherPackets ==
    {[header |-> [version |-> v, h |-> BusyHeader(poll, t)],
      efdata |-> [EfDefault EXCEPT !.untrusted = u],
      mac |-> m] :
        v \in {"V3", "V4"}, poll \in {0, -6}, t \in Timestamps,
        u \in {<<>>, <<Unknown(1285, Bytes(13, 128))>>},
        m \in {None, Some([keyid |-> <<0, 1>>, mac |-> Bytes(16, 16)])}}

InitExchange ==
    /\ lay = <<>>
    /\ data = <<>>
    /\ cipher \in Keys
    /\ tampered = 0
    /\ pc = "idle"
    /\ parsed = NoResult
    /\ cursor = <<>>
    /\ written = NoWritten
    /\ reparsed = NoResult
    /\ NoExchange

\* a poll builder has returned; lay keeps the arguments it was called with
Polled(args, built) ==
    /\ lay' = args
    /\ request' = built.packet
    /\ requestId' = built.id
    /\ pc' = "polled"
    /\ UNCHANGED <<data, cipher, tampered, parsed, cursor, written, reparsed,
                   served, server, response>>

PollMessage ==
    /\ pc = "idle"
    /\ \E poll_interval \in PollIntervals, gen \in Timestamps :
          Polled([builder |-> "poll_message", poll_interval |-> poll_interval],
                 poll_message(poll_interval, gen))

NtsPollMessage ==
    /\ pc = "idle"
    /\ \E identifier \in Identifiers, cookie \in Cookies,
          poll_interval \in PollIntervals, gen \in Timestamps :
          Polled([builder |-> "nts_poll_message", identifier |-> identifier,
                  cookie |-> cookie, request_extra_cookies |-> 0,
                  poll_interval |-> poll_interval],
                 nts_poll_message(identifier, cookie, poll_interval, gen))

\* nts_poll_message_request_extra_cookies called with a cookie of C
NtsPollWith(C) ==
    /\ pc = "idle"
    /\ \E identifier \in Identifiers, cookie \in C,
          request_extra_cookies \in 0..MaxExtraCookies,
          poll_interval \in PollIntervals, gen \in Timestamps :
          Polled([builder |-> "nts_poll_message_request_extra_cookies",
                  identifier |-> identifier, cookie |-> cookie,
                  request_extra_cookies |-> request_extra_cookies,
                  poll_interval |-> poll_interval],
                 nts_poll_message_request_extra_cookies(
                     identifier, cookie, request_extra_cookies, poll_interval, gen))

NtsPollMessageRequestExtraCookies == NtsPollWith(Cookies)

\* the packets a server may be answering once the request is sent
Served == {request} \cup OtherPackets

TimestampResponse ==
    /\ pc = "polled"
    /\ \E packet \in Served, system \in Systems,
          recv_timestamp \in Timestamps \ {NtpTimestampDefault},
          now \in Timestamps \ {NtpTimestampDefault} :
          /\ served' = packet
          /\ server' = [system |-> system, recv_timestamp |-> recv_timestamp, now |-> now]
          /\ response' = timestamp_response(system, packet, recv_timestamp, now)
    /\ pc' = "timestamp_response"
    /\ UNCHANGED <<lay, data, cipher, tampered, parsed, cursor, written, reparsed,
                   request, requestId>>

RateLimitResponse ==
    /\ pc = "polled"
    /\ \E packet_from_client \in Served :
          /\ served' = packet_from_client
          /\ response' = rate_limit_response(packet_from_client)
    /\ pc' = "rate_limit_response"
    /\ UNCHANGED <<lay, data, cipher, tampered, parsed, cursor, written, reparsed,
                   request, requestId, server>>

DenyResponse ==
    /\ pc = "polled"
    /\ \E packet_from_client \in Served :
          /\ served' = packet_from_client
          /\ response' = deny_response(packet_from_client)
    /\ pc' = "deny_response"
    /\ UNCHANGED <<lay, data, cipher, tampered, parsed, cursor, written, reparsed,
                   request, requestId, server>>

NextExchange ==
    \/ PollMessage
    \/ NtsPollMessage
    \/ NtsPollMessageRequestExtraCookies
    \/ TimestampResponse
    \/ RateLimitResponse
    \/ DenyResponse

SpecExchange == InitExchange /\ [][NextExchange]_vars

(***************************************************************************)
(* The NTS poll builder called with cookies of 65535 octets and more.      *)
(***************************************************************************)
LongCookieLengths == {65535, 65536, 65537, 65540}

LongCookies == {Fill(n, 64) : n \in LongCookieLengths}

NtsPollLongCookie == NtsPollWith(LongCookies)

NextCookie == NtsPollLongCookie

SpecCookie == InitExchange /\ [][NextCookie]_vars

(***************************************************************************)
(* Packets put together field by field, of version 3 and 4, with any       *)
(* extension fields in the three sequences and with or without a MAC, are  *)
(* serialized by both entry points and parsed again; the datagram with the *)
(* same layout is also received.  The nonce of the layout is the nonce the *)
(* caller of serialize holds.                                               *)
(***************************************************************************)
BuildMenu == {FramePlaceholder, FrameUnknown}

BuildLayoutsWith(a, b) ==
    {[BaseLayout EXCEPT !.first = f, !.container = (a # <<>> \/ b # <<>>),
                        !.pre = a, !.inner = b, !.post = c,
                        !.nonce = n, !.trailer = t] :
        f \in {27, 35},
        c \in FrameSeqs(BuildMenu, MaxFields - Len(a) - Len(b)),
        n \in {SerializeNonce, OtherNonce},
        t \in Trailers}

BuildLayouts ==
    UNION {UNION {BuildLayoutsWith(a, b) : b \in FrameSeqs(BuildMenu, MaxFields - Len(a))} :
             a \in FrameSeqs(BuildMenu, MaxFields)}

\* the packet value with the header, the fields and the MAC of a layout
PacketOf(l) ==
    [header |-> [version |-> IF (l.first \div 8) % 8 = 3 THEN "V3" ELSE "V4",
                 h |-> HeaderDeserialize(<<l.first>> \o l.tail).val],
     efdata |-> [authenticated |-> FrameFields(l.pre),
                 encrypted |-> FrameFields(l.inner),
                 untrusted |-> FrameFields(l.post)],
     mac |-> IF l.trailer = <<>> THEN None
             ELSE Some([keyid |-> U32FromBe(SubSeq(l.trailer, 1, 4)),
                        mac |-> SubSeq(l.trailer, 5, Len(l.trailer))])]

InitBuild == Start(BuildLayouts)

\* a packet is put together with the fields of the layout, before or
\* after the datagram is received
Construct ==
    /\ pc \in {"input", "parsed"}
    /\ request' = PacketOf(lay)
    /\ pc' = "built"
    /\ UNCHANGED <<lay, data, cipher, tampered, parsed, cursor, written, reparsed,
                   requestId, served, server, response>>

\* NtpPacket::serialize of the request
SerializeRequest ==
    /\ pc = "built"
    /\ \E c \in Cursors :
          \E out \in {NtpPacketSerialize(request, c, cipher)} :
              /\ cursor' = c
              /\ written' = [bytes |-> Slice(out.w, Len(c), Len(out.w)), calls |-> out.calls]
    /\ pc' = "written"
    /\ UNCHANGED <<lay, data, cipher, tampered, parsed, reparsed>>
    /\ UNCHANGED exchange

\* NtpPacket::serialize_without_encryption of the request
SerializeRequestWithoutEncryption ==
    /\ pc = "built"
    /\ \E c \in Cursors :
          \E out \in {NtpPacketSerializeWithoutEncryption(request, c)} :
              /\ cursor' = c
              /\ written' = [bytes |-> Slice(out.w, Len(c), Len(out.w)), calls |-> out.calls]
    /\ pc' = "written_without_encryption"
    /\ UNCHANGED <<lay, data, cipher, tampered, parsed, reparsed>>
    /\ UNCHANGED exchange

\* NtpPacket::deserialize_without_decryption of the octets written
ReparseWithoutDecryption ==
    /\ pc = "written_without_encryption"
    /\ reparsed' = NtpPacketDeserializeWithoutDecryption(written.bytes)
    /\ pc' = "reparsed"
    /\ UNCHANGED <<lay, data, cipher, tampered, parsed, cursor, written>>
    /\ UNCHANGED exchange

NextBuild ==
    \/ Receive
    \/ Send
    \/ Reparse
    \/ Construct
    \/ SerializeRequest
    \/ SerializeRequestWithoutEncryption
    \/ ReparseWithoutDecryption

SpecBuild == InitBuild /\ [][NextBuild]_vars

(***************************************************************************)
(* Datagrams of 48 octets with every first octet are parsed without        *)
(* decryption and written back without encryption; on a parsed packet the  *)
(* leap indicator and the mode are set, and the packet is written and      *)
(* parsed again.                                                            *)
(***************************************************************************)
HeaderLayouts ==
    {[BaseLayout EXCEPT !.first = f, !.tail = t] : f \in 0..255, t \in Tails}

LeapIndicators == {LeapFromBits(i) : i \in 0..3}

AssociationModes == {ModeFromBits(i) : i \in 0..7}

InitHeader ==
    /\ lay \in HeaderLayouts
    /\ data = Wire(lay)
    /\ cipher = 1
    /\ tampered = 0
    /\ pc = "input"
    /\ parsed = NoResult
    /\ cursor = <<>>
    /\ written = NoWritten
    /\ reparsed = NoResult
    /\ NoExchange

\* NtpPacket::deserialize_without_decryption of the datagram
ReceiveWithoutDecryption ==
    /\ pc = "input"
    /\ parsed' = NtpPacketDeserializeWithoutDecryption(data)
    /\ pc' = "parsed"
    /\ UNCHANGED <<lay, data, cipher, tampered, cursor, written, reparsed>>
    /\ UNCHANGED exchange

\* NtpPacket::serialize_without_encryption of the parsed packet
SendWithoutEncryption ==
    /\ pc = "parsed"
    /\ parsed.ok
    /\ \E c \in Cursors :
          \E out \in {NtpPacketSerializeWithoutEncryption(parsed.val, c)} :
              /\ cursor' = c
              /\ written' = [bytes |-> Slice(out.w, Len(c), Len(out.w)), calls |-> out.calls]
    /\ pc' = "written_without_encryption"
    /\ UNCHANGED <<lay, data, cipher, tampered, parsed, reparsed>>
    /\ UNCHANGED exchange

\* set_leap and set_mode on a copy of the parsed packet
SetFlags ==
    /\ pc = "parsed"
    /\ parsed.ok
    /\ \E leap \in LeapIndicators, mode \in AssociationModes :
          request' = set_mode(set_leap(parsed.val, leap), mode)
    /\ pc' = "built"
    /\ UNCHANGED <<lay, data, cipher, tampered, parsed, cursor, written, reparsed,
                   requestId, served, server, response>>

NextHeader ==
    \/ ReceiveWithoutDecryption
    \/ SendWithoutEncryption
    \/ SetFlags
    \/ SerializeRequest
    \/ SerializeRequestWithoutEncryption
    \/ Reparse
    \/ ReparseWithoutDecryption

SpecHeader == InitHeader /\ [][NextHeader]_vars

(***************************************************************************)
(* The bit fields of the first octet: the header decoder maps them to      *)
(* variants, to_bits maps a variant back, from_bits maps the bits again.   *)
(***************************************************************************)
BitLayouts == {[BaseLayout EXCEPT !.first = f] : f \in 0..255}

InitBits == Start(BitLayouts)

\* NtpHeaderV3V4::deserialize of the first 48 octets
DeserializeHeader ==
    /\ pc = "input"
    /\ parsed' = HeaderDeserialize(data)
    /\ pc' = "header"
    /\ UNCHANGED <<lay, data, cipher, tampered, cursor, written, reparsed>>
    /\ UNCHANGED exchange

\* NtpLeapIndicator::to_bits of the decoded leap indicator
LeapBits ==
    /\ pc = "header"
    /\ parsed.ok
    /\ written' = [bytes |-> <<LeapToBits(parsed.val.leap)>>, calls |-> <<>>]
    /\ pc' = "leap_bits"
    /\ UNCHANGED <<lay, data, cipher, tampered, parsed, cursor, reparsed>>
    /\ UNCHANGED exchange

\* NtpLeapIndicator::from_bits of the bits to_bits returned
LeapAgain ==
    /\ pc = "leap_bits"
    /\ reparsed' = Ok(LeapFromBits(written.bytes[1]))
    /\ pc' = "leap"
    /\ UNCHANGED <<lay, data, cipher, tampered, parsed, cursor, written>>
    /\ UNCHANGED exchange

\* NtpAssociationMode::to_bits of the decoded mode
ModeBits ==
    /\ pc = "header"
    /\ parsed.ok
    /\ written' = [bytes |-> <<ModeToBits(parsed.val.mode)>>, calls |-> <<>>]
    /\ pc' = "mode_bits"
    /\ UNCHANGED <<lay, data, cipher, tampered, parsed, cursor, reparsed>>
    /\ UNCHANGED exchange

\* NtpAssociationMode::from_bits of the bits to_bits returned
ModeAgain ==
    /\ pc = "mode_bits"
    /\ reparsed' = Ok(ModeFromBits(written.bytes[1]))
    /\ pc' = "mode"
    /\ UNCHANGED <<lay, data, cipher, tampered, parsed, cursor, written>>
    /\ UNCHANGED exchange

NextBits == DeserializeHeader \/ LeapBits \/ LeapAgain \/ ModeBits \/ ModeAgain

SpecBits == InitBits /\ [][NextBits]_vars

(***************************************************************************)
(* The encrypted container on its own: fields of unknown type are sealed   *)
(* by encode_encryped behind a cursor, and the octets written are decoded  *)
(* as one extension field holding a container.  The plaintext is the       *)
(* concatenation of the padded fields; the long bodies reach the limits of *)
(* the 16-bit length fields.                                                *)
(***************************************************************************)
LongBodies == {65488, 65492, 65516, 65531}

PlaintextBodies ==
    {<<>>} \cup {<<b>> : b \in 0..MaxShortBody} \cup {<<b, 5>> : b \in 0..MaxShortBody}
    \cup {<<b>> : b \in LongBodies}

SealLayouts ==
    [bodies : PlaintextBodies, nonce : {SerializeNonce, OtherNonce},
     prefix : Cursors, key : Keys]

FieldsToEncrypt(l) == [i \in 1..Len(l.bodies) |-> Unknown(1285, Bytes(l.bodies[i], 128))]

InitSeal ==
    /\ lay \in SealLayouts
    /\ data = <<>>
    /\ cipher = lay.key
    /\ tampered = 0
    /\ pc = "input"
    /\ parsed = NoResult
    /\ cursor = lay.prefix
    /\ written = NoWritten
    /\ reparsed = NoResult
    /\ NoExchange

\* encode_encryped writes the container behind the cursor
EncodeEncrypted ==
    /\ pc = "input"
    /\ \E out \in {encode_encryped(cursor, FieldsToEncrypt(lay), cipher, lay.nonce)} :
          written' = [bytes |-> out.bytes, calls |-> <<out.call>>]
    /\ pc' = "encoded"
    /\ UNCHANGED <<lay, data, cipher, tampered, parsed, cursor, reparsed>>
    /\ UNCHANGED exchange

\* the octets written are split off as one extension field and its body is
\* handed to the container decoder
DecodeEncrypted ==
    /\ pc = "encoded"
    /\ \E u \in {UnparsedDeserialize(written.bytes)} :
          IF ~u.ok
          THEN parsed' = [ok |-> FALSE, err |-> u.err, val |-> <<>>, aead |-> <<>>]
          ELSE \E r \in {from_message_bytes(u.val.message_bytes)} :
                 parsed' = [ok |-> r.ok, err |-> r.err,
                            val |-> IF r.ok
                                    THEN [nonce |-> r.val.nonce,
                                          ciphertext |-> r.val.ciphertext,
                                          wire_length |-> wire_length(u.val)]
                                    ELSE <<>>,
                            aead |-> <<>>]
    /\ pc' = "decoded"
    /\ UNCHANGED <<lay, data, cipher, tampered, cursor, written, reparsed>>
    /\ UNCHANGED exchange

NextSeal == EncodeEncrypted \/ DecodeEncrypted

SpecSeal == InitSeal /\ [][NextSeal]_vars

(***************************************************************************)
(* ExtensionFieldData::deserialize turn by turn.  The locals of the call   *)
(* are kept in parsed: the offset into the datagram, the fields gathered   *)
(* (this), the encrypted field met, the plaintext and the offset into it   *)
(* (inner), the decrypt calls made.  pc names the loop the call is in;     *)
(* its result is left in reparsed.  An index or a subtraction out of range *)
(* ends the call in "panicked".                                             *)
(***************************************************************************)
InitWalk ==
    Start({l \in NtsLayouts : l.nonce = SerializeNonce /\ Len(l.inner) <= 1}
          \cup {l \in MacLayouts : l.first = BaseLayout.first}
          \cup {l \in ShortLayouts : FieldCount(l) < MaxFields - 1})

Locals ==
    [offset |-> HeaderLength, this |-> EfDefault, encrypted_field |-> None,
     plaintext |-> <<>>, inner |-> 0, calls |-> <<>>]

\* one turn of the first loop: the field at w.offset
TurnBefore(d, w) ==
    The({IF ~unparsed.ok THEN unparsed
         ELSE The({IF ~basic.ok THEN basic
                   ELSE IF ~basic.val.some
                        THEN The({IF ~enc.ok THEN enc
                                  ELSE Ok([w EXCEPT
                                             !.encrypted_field =
                                                 Some([field |-> enc.val,
                                                       packet_so_far |-> Slice(d, 0, w.offset)]),
                                             !.offset = @ + wire_length(unparsed.val)]) :
                                    enc \in {from_message_bytes(unparsed.val.message_bytes)}})
                   ELSE Ok([w EXCEPT !.this.untrusted = Append(@, basic.val.v),
                                     !.offset = @ + wire_length(unparsed.val)]) :
                     basic \in {decode_basic_field(unparsed.val)}}) :
           unparsed \in {UnparsedDeserialize(Slice(d, w.offset, Len(d)))}})

\* one turn of the loop over the plaintext: the field at w.inner
TurnPlaintext(w) ==
    The({IF ~unparsed.ok THEN unparsed
         ELSE The({IF ~basic.ok THEN basic
                   ELSE IF ~basic.val.some THEN Err("MalformedNtsExtensionFields")
                   ELSE Ok([w EXCEPT !.this.encrypted = Append(@, basic.val.v),
                                     !.inner = @ + wire_length(unparsed.val)]) :
                     basic \in {decode_basic_field(unparsed.val)}}) :
           unparsed \in {UnparsedDeserialize(Slice(w.plaintext, w.inner, Len(w.plaintext)))}})

\* TurnAfter advancing by the declared field length, without its padding
TurnAfter_unpadded(d, w) ==
    The({IF ~unparsed.ok THEN unparsed
         ELSE The({IF ~basic.ok THEN basic
                   ELSE IF ~basic.val.some THEN Err("MalformedNtsExtensionFields")
                   ELSE Ok([w EXCEPT !.this.untrusted = Append(@, basic.val.v),
                                     !.offset = @ + 4 + Len(unparsed.val.message_bytes)]) :
                     basic \in {decode_basic_field(unparsed.val)}}) :
           unparsed \in {UnparsedDeserialize(Slice(d, w.offset, Len(d)))}})

\* one turn of the last loop: the field at w.offset
TurnAfter(d, w) ==
    The({IF ~unparsed.ok THEN unparsed
         ELSE The({IF ~basic.ok THEN basic
                   ELSE IF ~basic.val.some THEN Err("MalformedNtsExtensionFields")
                   ELSE Ok([w EXCEPT !.this.untrusted = Append(@, basic.val.v),
                                     !.offset = @ + wire_length(unparsed.val)]) :
                     basic \in {decode_basic_field(unparsed.val)}}) :
           unparsed \in {UnparsedDeserialize(Slice(d, w.offset, Len(d)))}})

\* the call leaves a turn: with an error, or with new locals in loop next
Leave(r, next) ==
    IF r = Panicked
    THEN /\ pc' = "panicked"
         /\ UNCHANGED <<parsed, reparsed>>
    ELSE IF ~r.ok
    THEN /\ reparsed' = Logged(r, parsed.calls)
         /\ pc' = "failed"
         /\ UNCHANGED parsed
    ELSE /\ parsed' = r.val
         /\ pc' = next
         /\ UNCHANGED reparsed

Panic ==
    /\ pc' = "panicked"
    /\ UNCHANGED <<parsed, reparsed>>

\* ExtensionFieldData::deserialize is entered after the header
EnterWalk ==
    /\ pc = "input"
    /\ parsed' = Locals
    /\ pc' = "before"
    /\ UNCHANGED <<lay, data, cipher, tampered, cursor, written, reparsed>>
    /\ UNCHANGED exchange

WalkBefore ==
    /\ pc = "before"
    /\ IF parsed.offset > Len(data) THEN Panic
       ELSE /\ Len(data) - parsed.offset >= MAXIMUM_SIZE
            /\ \E r \in {TurnBefore(data, parsed)} :
                  Leave(r, IF r.ok /\ r.val.encrypted_field.some THEN "decrypt" ELSE "before")
    /\ UNCHANGED <<lay, data, cipher, tampered, cursor, written>>
    /\ UNCHANGED exchange

\* the first loop ends without an encrypted field
LeaveBefore ==
    /\ pc = "before"
    /\ parsed.offset <= Len(data)
    /\ ~(Len(data) - parsed.offset >= MAXIMUM_SIZE)
    /\ pc' = "after"
    /\ UNCHANGED <<lay, data, cipher, tampered, parsed, cursor, written, reparsed>>
    /\ UNCHANGED exchange

\* the encrypted field met is decrypted
WalkDecrypt ==
    /\ pc = "decrypt"
    /\ \E met \in {parsed.encrypted_field.v} :
        \E plain \in {CipherDecrypt(cipher, met.field.nonce, met.packet_so_far,
                                    met.field.ciphertext)} :
        \E call \in {[aad |-> met.packet_so_far, nonce |-> met.field.nonce,
                       msg |-> met.field.ciphertext, ok |-> plain.ok]} :
          IF ~plain.ok
          THEN /\ reparsed' = Logged(Err("DecryptError"), <<call>>)
               /\ pc' = "failed"
               /\ UNCHANGED parsed
          ELSE /\ parsed' = [parsed EXCEPT !.this.authenticated = parsed.this.untrusted,
                                            !.this.untrusted = <<>>,
                                            !.plaintext = plain.val,
                                            !.inner = 0,
                                            !.calls = <<call>>]
               /\ pc' = "plaintext"
               /\ UNCHANGED reparsed
    /\ UNCHANGED <<lay, data, cipher, tampered, cursor, written>>
    /\ UNCHANGED exchange

WalkPlaintext ==
    /\ pc = "plaintext"
    /\ parsed.inner < Len(parsed.plaintext)
    /\ \E r \in {TurnPlaintext(parsed)} : Leave(r, "plaintext")
    /\ UNCHANGED <<lay, data, cipher, tampered, cursor, written>>
    /\ UNCHANGED exchange

LeavePlaintext ==
    /\ pc = "plaintext"
    /\ ~(parsed.inner < Len(parsed.plaintext))
    /\ pc' = "after"
    /\ UNCHANGED <<lay, data, cipher, tampered, parsed, cursor, written, reparsed>>
    /\ UNCHANGED exchange

WalkAfter ==
    /\ pc = "after"
    /\ IF parsed.offset > Len(data) THEN Panic
       ELSE /\ Len(data) - parsed.offset >= MAXIMUM_SIZE
            /\ \E r \in {TurnAfter(data, parsed)} : Leave(r, "after")
    /\ UNCHANGED <<lay, data, cipher, tampered, cursor, written>>
    /\ UNCHANGED exchange

\* Ok((this, offset))
WalkReturn ==
    /\ pc = "after"
    /\ parsed.offset <= Len(data)
    /\ ~(Len(data) - parsed.offset >= MAXIMUM_SIZE)
    /\ reparsed' = Logged(Ok([efdata |-> parsed.this, offset |-> parsed.offset]), parsed.calls)
    /\ pc' = "returned"
    /\ UNCHANGED <<lay, data, cipher, tampered, parsed, cursor, written>>
    /\ UNCHANGED exchange

NextWalk ==
    \/ EnterWalk
    \/ WalkBefore
    \/ LeaveBefore
    \/ WalkDecrypt
    \/ WalkPlaintext
    \/ LeavePlaintext
    \/ WalkAfter
    \/ WalkReturn

SpecWalk == InitWalk /\ [][NextWalk]_vars

\* the call runs on its own thread and is never suspended for ever
SpecWalkFair == SpecWalk /\ WF_vars(NextWalk)

(***************************************************************************)
(* NtpPacket::deserialize turn by turn, on datagrams cut at every length:  *)
(* the first octet and the header are read, then the extension fields are  *)
(* walked (version 4), then the trailer is read.                            *)
(***************************************************************************)
\* a frame of 33 octets and 3 of padding, longer than a MAC
FrameLong == Frame(1285, Bytes(29, 128), Zeros(3))

TotalLayouts ==
    {[BaseLayout EXCEPT !.first = f, !.container = c, !.pre = a, !.inner = b, !.post = d,
                        !.trailer = t] :
        f \in {35, 27},
        c \in BOOLEAN,
        a \in {<<>>, <<FrameIdentifier>>},
        b \in {<<>>, <<FramePlaceholder>>},
        d \in {<<>>, <<FrameLong>>, <<FrameSecond>>},
        t \in Trailers \cup {OverlongFrame}}
    \cup {[BaseLayout EXCEPT !.first = f] : f \in {11, 51, 100, 227}}
    \cup {[BaseLayout EXCEPT !.container = TRUE, !.nonce = ShortNonce, !.trailer = t] :
            t \in Trailers}

\* the prefixes of the datagram of layout l, of every length
Cuts(l) == {[of |-> l, length |-> n] : n \in 0..Len(Wire(l))}

InitTotal ==
    /\ lay \in UNION {Cuts(l) : l \in {t \in TotalLayouts :
                                          t.container \/ (t.pre = <<>> /\ t.inner = <<>>)}}
    /\ data = Slice(Wire(lay.of), 0, lay.length)
    /\ cipher \in Keys
    /\ tampered = 0
    /\ pc = "input"
    /\ parsed = NoResult
    /\ cursor = <<>>
    /\ written = NoWritten
    /\ reparsed = NoResult
    /\ NoExchange

\* NtpPacket::deserialize up to the header
EnterPacket ==
    /\ pc = "input"
    /\ IF data = <<>>
       THEN /\ reparsed' = Logged(Err("IncorrectLength"), <<>>)
            /\ pc' = "failed"
            /\ UNCHANGED parsed
       ELSE \E version \in {(data[1] \div 8) % 8} :
              IF version \notin {3, 4}
              THEN /\ reparsed' = Logged(ErrInvalidVersion(version), <<>>)
                   /\ pc' = "failed"
                   /\ UNCHANGED parsed
              ELSE \E header \in {HeaderDeserialize(data)} :
                     IF ~header.ok
                     THEN /\ reparsed' = Logged(header, <<>>)
                          /\ pc' = "failed"
                          /\ UNCHANGED parsed
                     ELSE IF header.val.leap = "unreachable" \/ header.val.mode = "unreachable"
                     THEN Panic
                     ELSE /\ parsed' = [header |-> [version |-> IF version = 3 THEN "V3" ELSE "V4",
                                                     h |-> header.val]] @@ Locals
                          /\ pc' = IF version = 3 THEN "trailer" ELSE "before"
                          /\ UNCHANGED reparsed
    /\ UNCHANGED <<lay, data, cipher, tampered, cursor, written>>
    /\ UNCHANGED exchange

\* the MAC after the header (version 3) or after the extension fields
ReadTrailer ==
    /\ pc \in {"trailer", "returned"}
    /\ IF parsed.offset > Len(data) THEN Panic
       ELSE \E r \in {PacketWithMac(data, parsed.header, parsed.this, parsed.offset,
                                     parsed.calls)} :
              /\ reparsed' = r
              /\ pc' = IF r.ok THEN "ok" ELSE "failed"
              /\ UNCHANGED parsed
    /\ UNCHANGED <<lay, data, cipher, tampered, cursor, written>>
    /\ UNCHANGED exchange

NextTotal ==
    \/ EnterPacket
    \/ WalkBefore
    \/ LeaveBefore
    \/ WalkDecrypt
    \/ WalkPlaintext
    \/ LeavePlaintext
    \/ WalkAfter
    \/ WalkReturn
    \/ ReadTrailer

SpecTotal == InitTotal /\ [][NextTotal]_vars

\* the call runs on its own thread and is never suspended for ever
SpecTotalFair == SpecTotal /\ WF_vars(NextTotal)

(***************************************************************************)
(* An NTS request end to end: the request is built, serialized with the    *)
(* key of the association into a cursor at position 0, and the octets      *)
(* written are deserialized with that key and with another one.  The       *)
(* identifiers and cookies have the shortest and the longest lengths a     *)
(* field can carry, and lengths in between.                                 *)
(***************************************************************************)
RequestArguments ==
    [identifier : {Bytes(32, 0), Bytes(35, 0)},
     cookie : {Bytes(12, 64), Bytes(13, 64), Bytes(16, 64)},
     request_extra_cookies : 0..MaxExtraCookies,
     poll_interval : PollIntervals,
     gen : Timestamps]
    \cup [identifier : {Bytes(32, 0), Bytes(65531, 0)},
          cookie : {Bytes(12, 64), Bytes(65531, 64)},
          request_extra_cookies : {0, 1},
          poll_interval : {[log |-> 4]},
          gen : {NtpTimestampDefault}]

\* NtpPacket::nts_poll_message_request_extra_cookies builds the request
BuildRequest ==
    /\ pc = "idle"
    /\ \E a \in RequestArguments :
          Polled([builder |-> "nts_poll_message_request_extra_cookies",
                  identifier |-> a.identifier, cookie |-> a.cookie,
                  request_extra_cookies |-> a.request_extra_cookies,
                  poll_interval |-> a.poll_interval],
                 nts_poll_message_request_extra_cookies(
                     a.identifier, a.cookie, a.request_extra_cookies, a.poll_interval, a.gen))

\* NtpPacket::serialize of the request with the key, cursor at position 0
SendRequest ==
    /\ pc = "polled"
    /\ \E out \in {NtpPacketSerialize(request, <<>>, cipher)} :
          written' = [bytes |-> out.w, calls |-> out.calls]
    /\ cursor' = <<>>
    /\ pc' = "sent"
    /\ UNCHANGED <<lay, data, cipher, tampered, parsed, reparsed>>
    /\ UNCHANGED exchange

\* NtpPacket::deserialize of the octets written, with the same key
ReceiveRequest ==
    /\ pc = "sent"
    /\ parsed' = NtpPacketDeserialize(written.bytes, cipher)
    /\ pc' = "received"
    /\ UNCHANGED <<lay, data, cipher, tampered, cursor, written, reparsed>>
    /\ UNCHANGED exchange

\* NtpPacket::deserialize of the octets written, with another key
ReceiveWithOtherKey ==
    /\ pc = "sent"
    /\ \E K \in (Keys \cup {ZeroKey}) \ {cipher} :
          /\ reparsed' = NtpPacketDeserialize(written.bytes, K)
          /\ tampered' = K
    /\ pc' = "refused"
    /\ UNCHANGED <<lay, data, cipher, parsed, cursor, written>>
    /\ UNCHANGED exchange

NextRequest == BuildRequest \/ SendRequest \/ ReceiveRequest \/ ReceiveWithOtherKey

SpecRequest == InitExchange /\ [][NextRequest]_vars

(***************************************************************************)
(* Both entry points side by side: a datagram is parsed by deserialize     *)
(* with the key and by deserialize_without_decryption; a packet is written *)
(* by serialize with the key and by serialize_without_encryption.          *)
(***************************************************************************)
\* a MAC holds a key id of four octets
InitSide ==
    Start({l \in PlainLayouts \cup MacLayouts \cup TamperLayouts : Len(l.trailer) \notin 1..3})

\* deserialize and deserialize_without_decryption of the same datagram
ReceiveBoth ==
    /\ pc = "input"
    /\ parsed' = NtpPacketDeserialize(data, cipher)
    /\ reparsed' = NtpPacketDeserializeWithoutDecryption(data)
    /\ pc' = "parsed_both"
    /\ UNCHANGED <<lay, data, cipher, tampered, cursor, written>>
    /\ UNCHANGED exchange

\* serialize and serialize_without_encryption of the same packet, each into
\* its own cursor at the same position
SerializeBoth ==
    /\ pc = "built"
    /\ \E c \in Cursors :
          \E out \in {NtpPacketSerialize(request, c, cipher)},
             plain \in {NtpPacketSerializeWithoutEncryption(request, c)} :
              /\ cursor' = c
              /\ written' = [bytes |-> Slice(out.w, Len(c), Len(out.w)),
                             calls |-> out.calls,
                             without_encryption |-> Slice(plain.w, Len(c), Len(plain.w))]
    /\ pc' = "written_both"
    /\ UNCHANGED <<lay, data, cipher, tampered, parsed, reparsed>>
    /\ UNCHANGED exchange

NextSide == ReceiveBoth \/ Construct \/ SerializeBoth

SpecSide == InitSide /\ [][NextSide]_vars

(***************************************************************************)
(* Properties of the round trip and of the trust of extension fields.      *)
(***************************************************************************)
efdata == parsed.val.efdata

HasContainerFrame(fs) == \E i \in 1..Len(fs) : IsContainerFrame(fs[i])

\* C1: byte round trip: whenever deserialize(bytes, K) succeeds, serializing
\* the packet with K (cursor at position 0) writes exactly bytes
ByteRoundTrip == pc = "written" /\ cursor = <<>> => written.bytes = data

\* C2: value round trip: a packet returned by deserialize, serialized with
\* the same cipher into a cursor at position 0 and deserialized again,
\* gives an equal packet
ValueRoundTrip ==
    pc = "reparsed" /\ cursor = <<>> => reparsed.ok /\ reparsed.val = parsed.val

ValueRoundTripWitness ==
    /\ pc = "reparsed"
    /\ cursor = <<>>
    /\ reparsed.ok
    /\ efdata.authenticated # <<>>
    /\ efdata.encrypted # <<>>
    /\ efdata.untrusted # <<>>

\* C3: trust promotion: when a version-4 datagram with an encrypted
\* container parses, the fields before the container are the authenticated
\* fields, the fields sealed in it are the encrypted fields and the fields
\* after it are the untrusted fields, each in wire order
TrustPromotion ==
    pc # "input" /\ parsed.ok /\ lay.container =>
        /\ efdata.authenticated = FrameFields(lay.pre)
        /\ efdata.encrypted = FrameFields(lay.inner)
        /\ efdata.untrusted = FrameFields(PostFields(lay))

TrustPromotionWitness ==
    /\ pc = "parsed"
    /\ parsed.ok
    /\ lay.container
    /\ lay.pre # <<>>
    /\ lay.inner # <<>>
    /\ PostFields(lay) # <<>>

\* C4: a packet parsed from a datagram without an encrypted container has
\* no authenticated and no encrypted field, and all its fields are
\* untrusted; a packet with an authenticated or encrypted field comes from
\* a parse in which a decryption with the given cipher succeeded
NoContainerNoTrust ==
    pc # "input" /\ parsed.ok =>
        /\ ~lay.container =>
              /\ efdata.authenticated = <<>>
              /\ efdata.encrypted = <<>>
              /\ efdata.untrusted = FrameFields(PostFields(lay))
        /\ parsed.val.header.version = "V3" => efdata = EfDefault
        /\ efdata.authenticated # <<>> \/ efdata.encrypted # <<>> =>
              /\ lay.container
              /\ cipher = lay.sealKey
              /\ \E i \in 1..Len(parsed.aead) : parsed.aead[i].ok

NoContainerNoTrustWitness ==
    /\ pc = "parsed"
    /\ parsed.ok
    /\ ~lay.container
    /\ efdata.untrusted # <<>>

\* C5: at most one encrypted container: a second field of type 0x0404 in
\* the decrypted plaintext, or after the decrypted container with at least
\* 28 octets remaining at its start, makes deserialize fail with
\* MalformedNtsExtensionFields; no successful parse consumed two containers
OneContainer ==
    pc # "input" /\ lay.container =>
        /\ cipher = lay.sealKey
           /\ (HasContainerFrame(lay.inner) \/ HasContainerFrame(PostFields(lay)))
           => ~parsed.ok /\ parsed.err = <<"MalformedNtsExtensionFields">>
        /\ parsed.ok => ~HasContainerFrame(lay.inner) /\ ~HasContainerFrame(PostFields(lay))

OneContainerWitness ==
    /\ pc = "parsed"
    /\ lay.container
    /\ ~HasContainerFrame(lay.inner)
    /\ HasContainerFrame(PostFields(lay))
    /\ parsed.err = <<"MalformedNtsExtensionFields">>

(***************************************************************************)
(* Properties of decryption and of the associated data.                    *)
(***************************************************************************)
VersionOf(b) == (b \div 8) % 8

PrefixLength == Len(WirePrefix(lay))

\* the altered octet lies in the header and leaves the version as it was
InHeader(i) == i \in 2..HeaderLength \/ (i = 1 /\ VersionOf(data[1]) = 4)

\* the altered octet lies in the body of the first field before the
\* container, a field whose body may hold any octets
InPreBody(i) ==
    /\ lay.pre # <<>>
    /\ lay.pre[1].type_id # 772
    /\ i \in (HeaderLength + 5)..(HeaderLength + 4 + Len(lay.pre[1].body))

InNonce(i) == i \in (PrefixLength + 9)..(PrefixLength + 24)

InCiphertext(i) == i \in (PrefixLength + 25)..ContainerEnd(lay)

DecryptMustFail ==
    /\ lay.container
    /\ \/ tampered = 0 /\ cipher # lay.sealKey
       \/ InHeader(tampered)
       \/ InPreBody(tampered)
       \/ InNonce(tampered)
       \/ InCiphertext(tampered)

\* C6: when the decryption of a well-formed container fails (wrong key,
\* altered nonce, ciphertext or associated data), deserialize returns
\* DecryptError and no packet: nothing parsed before the container is
\* returned, and the fields after it are not examined
DecryptFailureIsFatal ==
    pc # "input" /\ DecryptMustFail =>
        /\ ~parsed.ok
        /\ parsed.err = <<"DecryptError">>
        /\ parsed.val = <<>>
        /\ Len(parsed.aead) = 1
        /\ ~parsed.aead[1].ok

DecryptFailureIsFatalWitness ==
    /\ pc = "parsed"
    /\ InNonce(tampered)
    /\ lay.pre # <<>>
    /\ HasContainerFrame(PostFields(lay))
    /\ parsed.err = <<"DecryptError">>

\* C7 as claimed: the associated data is the octets of the packet before
\* the container, in serialize whatever the cursor held before the call
\* and in deserialize; altering an octet before the container makes
\* deserialize fail
AssociatedDataIsPacketPrefix ==
    /\ pc \in {"written", "reparsed"} /\ tampered = 0 /\ written.calls # <<>> =>
          written.calls[1].aad = SubSeq(written.bytes, 1, PrefixLength)
    /\ pc # "input" /\ tampered = 0 /\ parsed.aead # <<>> =>
          parsed.aead[1].aad = SubSeq(data, 1, PrefixLength)
    /\ pc # "input" /\ tampered \in 1..PrefixLength => ~parsed.ok

\* C7 amended: deserialize passes data[0..container offset] to decrypt;
\* serialize passes the cursor's buffer from index 0 to the position of
\* the container, which is the packet so far only when the cursor started
\* at position 0; altering an octet before the container makes deserialize
\* fail or return a packet without authenticated and encrypted fields
AssociatedDataIsBufferPrefix ==
    /\ pc \in {"written", "reparsed"} /\ tampered = 0 /\ written.calls # <<>> =>
          written.calls[1].aad = cursor \o SubSeq(written.bytes, 1, PrefixLength)
    /\ pc # "input" /\ tampered = 0 /\ parsed.aead # <<>> =>
          parsed.aead[1].aad = SubSeq(data, 1, PrefixLength)
    /\ pc # "input" /\ tampered \in 1..PrefixLength =>
          \/ ~parsed.ok
          \/ efdata.authenticated = <<>> /\ efdata.encrypted = <<>>

AssociatedDataWitness ==
    /\ pc = "reparsed"
    /\ cursor # <<>>
    /\ written.calls # <<>>
    /\ written.calls[1].aad = cursor \o SubSeq(data, 1, PrefixLength)
    /\ reparsed.err = <<"DecryptError">>

(***************************************************************************)
(* Properties of the version, of the trailer and of the padding.           *)
(***************************************************************************)
\* C8: version gating: a first octet whose version is not 3 or 4 gives
\* InvalidVersion(version) whatever follows it; a first octet of version 3
\* or 4 followed by 47 header octets parses, tagged V3 or V4
VersionGating ==
    pc # "input" =>
        /\ VersionOf(data[1]) \notin {3, 4} =>
              ~parsed.ok /\ parsed.err = <<"InvalidVersion", VersionOf(data[1])>>
        /\ VersionOf(data[1]) \in {3, 4} /\ data = Wire(lay) =>
              /\ parsed.ok
              /\ parsed.val.header.version = (IF VersionOf(data[1]) = 3 THEN "V3" ELSE "V4")

VersionGatingWitness ==
    /\ pc = "parsed"
    /\ Len(data) = 1
    /\ data[1] >= 64
    /\ VersionOf(data[1]) = 7
    /\ parsed.err = <<"InvalidVersion", 7>>

\* the trailer: for version 3 all octets after the header, for version 4
\* all octets after the header and the octets read as extension fields
MacTrailer ==
    IF VersionOf(lay.first) = 3 THEN SubSeq(data, HeaderLength + 1, Len(data))
    ELSE PostTrailer(lay)

\* the extension fields of the datagram can be parsed with the cipher
FieldsParse == VersionOf(lay.first) = 3 \/ ~lay.container \/ cipher = lay.sealKey

\* the trailer starts right after the header
NoFieldBeforeTrailer == Len(MacTrailer) = Len(data) - HeaderLength

MacOf(t) ==
    Some([keyid |-> <<t[1] * 256 + t[2], t[3] * 256 + t[4]>>, mac |-> SubSeq(t, 5, Len(t))])

\* C9 as claimed: a trailer of 1, 2, 3 or at least 28 octets makes
\* deserialize fail, a trailer of any length in [4, 28) makes it succeed
\* with that MAC, an empty trailer gives no MAC
MacBounds ==
    pc # "input" /\ FieldsParse =>
        /\ Len(MacTrailer) \in 1..3 \/ Len(MacTrailer) >= 28 => ~parsed.ok
        /\ Len(MacTrailer) \in 4..27 => parsed.ok /\ parsed.val.mac = MacOf(MacTrailer)
        /\ MacTrailer = <<>> => parsed.ok /\ parsed.val.mac = None

\* C9 amended: a trailer of any length in [4, 28) is accepted when it
\* starts right after the header or its length is a multiple of 4; after an
\* extension field a trailer whose length is no multiple of 4 makes
\* deserialize fail with IncorrectLength
MacBoundsAligned ==
    pc # "input" /\ FieldsParse =>
        /\ Len(MacTrailer) \in 1..3 \/ Len(MacTrailer) >= 28 => ~parsed.ok
        /\ Len(MacTrailer) \in 4..27 /\ (NoFieldBeforeTrailer \/ Len(MacTrailer) % 4 = 0) =>
              parsed.ok /\ parsed.val.mac = MacOf(MacTrailer)
        /\ Len(MacTrailer) \in 4..27 /\ ~NoFieldBeforeTrailer /\ Len(MacTrailer) % 4 # 0 =>
              ~parsed.ok /\ parsed.err = <<"IncorrectLength">>
        /\ MacTrailer = <<>> => parsed.ok /\ parsed.val.mac = None

MacBoundsWitness ==
    /\ pc = "parsed"
    /\ VersionOf(lay.first) = 4
    /\ PostFields(lay) # <<>>
    /\ Len(MacTrailer) = 27
    /\ parsed.err = <<"IncorrectLength">>

HasBadPadding(fs) == \E i \in 1..Len(fs) : BadPadding(fs[i])

NonceBad == lay.container /\ AnyNonZero(Padding(Len(lay.nonce), lay.noncePad))

CiphertextBad ==
    lay.container /\ AnyNonZero(Padding(TagLength + Len(WirePlaintext(lay)), lay.ctPad))

\* the container is decrypted and its plaintext holds whole frames
Decrypts == lay.container /\ Len(lay.nonce) = 16 /\ cipher = lay.sealKey

\* the frames after the container are examined
PostExamined == ~lay.container \/ (Decrypts /\ lay.ptTail = <<>> /\ ~HasBadPadding(lay.inner))

RejectedAsIncorrectLength == ~parsed.ok /\ parsed.err = <<"IncorrectLength">>

\* the padding after field bodies and after the nonce: common to the claim
\* and to its amended form
PaddingOfFieldsAndNonce ==
    /\ HasBadPadding(lay.pre) \/ NonceBad => RejectedAsIncorrectLength
    /\ Decrypts /\ HasBadPadding(lay.inner) => RejectedAsIncorrectLength
    /\ PostExamined /\ HasBadPadding(PostFields(lay)) => RejectedAsIncorrectLength

Responded == pc \in {"timestamp_response", "rate_limit_response", "deny_response"}

SameTransmitTimestamp ==
    served.header.h.transmit_timestamp = request.header.h.transmit_timestamp

\* C12: the identifier returned by a poll builder is the transmit timestamp
\* of the request; a response built by timestamp_response,
\* rate_limit_response or deny_response satisfies
\* valid_server_response(id) when it is built from the request, and exactly
\* when it is built from a packet with the request's transmit timestamp
RequestResponseMatching ==
    /\ pc # "idle" =>
          requestId.expected_origin_timestamp = request.header.h.transmit_timestamp
    /\ Responded =>
          /\ served = request => valid_server_response(response, requestId)
          /\ valid_server_response(response, requestId) <=> SameTransmitTimestamp
          /\ valid_server_response(served, requestId)
                <=> served.header.h.origin_timestamp = request.header.h.transmit_timestamp

RequestResponseWitness ==
    /\ pc = "timestamp_response"
    /\ served = request
    /\ request.efdata.authenticated # <<>>
    /\ valid_server_response(response, requestId)

(***************************************************************************)
(* The nonce length of an encrypted container.                              *)
(***************************************************************************)
\* the declared lengths account for the body up to its last word
DeclaredLengthsAgree ==
    4 + next_multiple_of(lay.nonce_length, 4) + next_multiple_of(lay.ciphertext_length, 4)
        = next_multiple_of(lay.body_length, 4)

\* the declared ciphertext ends within the body
CiphertextInBody ==
    4 + next_multiple_of(lay.nonce_length, 4) + lay.ciphertext_length <= lay.body_length

\* the octets between the nonce and the ciphertext are zero
NoncePaddingZero == lay.nonce_length % 4 = 0 \/ lay.fill = 0

RejectedAsMalformedNonce == ~parsed.ok /\ parsed.err = <<"MalformedNonce">>

\* C11 as claimed: a container whose declared nonce length is not 16 is
\* rejected by the container decoder with MalformedNonce, whatever the
\* declared ciphertext length and the body length
NonceLengthRejected ==
    pc = "parsed" /\ lay.nonce_length # 16 => RejectedAsMalformedNonce

\* C11 amended: a container whose declared nonce length is not 16 is
\* rejected by the container decoder: with MalformedNonce when the declared
\* lengths account for the body, the ciphertext ends within the body and
\* the nonce padding is zero, and with IncorrectLength otherwise
NonceLengthRejectedInOrder ==
    pc = "parsed" /\ lay.nonce_length # 16 =>
        IF DeclaredLengthsAgree /\ CiphertextInBody /\ NoncePaddingZero
        THEN RejectedAsMalformedNonce
        ELSE RejectedAsIncorrectLength

NonceLengthWitness ==
    /\ pc = "parsed"
    /\ lay.nonce_length = 13
    /\ DeclaredLengthsAgree
    /\ CiphertextInBody
    /\ ~NoncePaddingZero
    /\ RejectedAsIncorrectLength

(***************************************************************************)
(* The fields of the responses.                                             *)
(***************************************************************************)
\* C13: timestamp_response(system, input, recv_timestamp, clock) has mode
\* Server, the poll of the input, the transmit timestamp of the input as
\* origin timestamp, recv_timestamp as receive timestamp, the reference id
\* and stratum of the system, the precision, root delay and root dispersion
\* of the system's time snapshot and clock.now() as transmit timestamp; no
\* other field of the input reaches the response
TimestampResponseFields ==
    pc = "timestamp_response" =>
        response.header.h =
            [leap |-> "NoWarning",
             mode |-> "Server",
             stratum |-> server.system.stratum,
             poll |-> served.header.h.poll,
             precision |-> server.system.time_snapshot.precision.log2,
             root_delay |-> server.system.time_snapshot.root_delay,
             root_dispersion |-> server.system.time_snapshot.root_dispersion,
             reference_id |-> server.system.reference_id,
             reference_timestamp |-> NtpTimestampDefault,
             origin_timestamp |-> served.header.h.transmit_timestamp,
             receive_timestamp |-> server.recv_timestamp,
             transmit_timestamp |-> server.now]

TimestampResponseWitness ==
    /\ pc = "timestamp_response"
    /\ served \in OtherPackets
    /\ served.header.version = "V3"
    /\ served.header.h.poll = -6
    /\ response.header.h.poll = -6
    /\ response.header.h.stratum = 16

\* the four octets of a reference id on the wire
ReferenceIdOctets(p) == ReferenceIdToBytes(p.header.h.reference_id)

\* C14: rate_limit_response(input) has stratum 0, reference id "RATE" and
\* the transmit timestamp of the input as origin timestamp;
\* deny_response(input) has stratum 0, reference id "DENY" and the same
\* origin timestamp; is_kiss holds of both, is_kiss_rate of the first and
\* is_kiss_deny of the second; is_kiss holds of a packet exactly when its
\* stratum is 0
KissResponses ==
    /\ pc = "rate_limit_response" =>
          /\ response.header.h.stratum = 0
          /\ ReferenceIdOctets(response) = <<82, 65, 84, 69>>
          /\ response.header.h.origin_timestamp = served.header.h.transmit_timestamp
          /\ is_kiss(response)
          /\ is_kiss_rate(response)
    /\ pc = "deny_response" =>
          /\ response.header.h.stratum = 0
          /\ ReferenceIdOctets(response) = <<68, 69, 78, 89>>
          /\ response.header.h.origin_timestamp = served.header.h.transmit_timestamp
          /\ is_kiss(response)
          /\ is_kiss_deny(response)
    /\ pc = "timestamp_response" =>
          /\ is_kiss(response) <=> server.system.stratum = 0
          /\ is_kiss(served) <=> served = request
    /\ pc # "idle" => is_kiss(request)

KissResponsesWitness ==
    /\ pc = "rate_limit_response"
    /\ served.header.h.stratum = 5
    /\ served.header.h.reference_id = KISS_RSTR
    /\ is_kiss_rate(response)

(***************************************************************************)
(* The NTS poll builder.                                                    *)
(***************************************************************************)
IsNtsPoll ==
    /\ pc # "idle"
    /\ lay.builder \in {"nts_poll_message", "nts_poll_message_request_extra_cookies"}

\* C15: the NTS poll builders return a V4 client-mode packet whose
\* authenticated fields are UniqueIdentifier(identifier), NtsCookie(cookie)
\* and request_extra_cookies placeholders with cookie_length the length of
\* the cookie, whose encrypted and untrusted fields are empty and whose MAC
\* is absent, and an identifier equal to the packet's transmit timestamp
NtsPollBuilder ==
    IsNtsPoll =>
        /\ request.header.version = "V4"
        /\ request.header.h.mode = "Client"
        /\ Len(request.efdata.authenticated) = 2 + lay.request_extra_cookies
        /\ request.efdata.authenticated[1] = UniqueIdentifier(lay.identifier)
        /\ request.efdata.authenticated[2] = NtsCookie(lay.cookie)
        /\ \A i \in 3..(2 + lay.request_extra_cookies) :
              /\ request.efdata.authenticated[i].variant = "NtsCookiePlaceholder"
              /\ request.efdata.authenticated[i].cookie_length = Len(lay.cookie)
        /\ request.efdata.encrypted = <<>>
        /\ request.efdata.untrusted = <<>>
        /\ request.mac = None
        /\ requestId.expected_origin_timestamp = request.header.h.transmit_timestamp

(***************************************************************************)
(* What the serialize entry points write for a packet put together field   *)
(* by field.                                                                *)
(***************************************************************************)
Serialized == pc \in {"written", "written_without_encryption"}

\* the octets of the header, as the layout has them
HeaderOctets == <<lay.first>> \o lay.tail

\* what precedes and what follows the place of the container
BeforeContainer == HeaderOctets \o WireFrames(lay.pre)

AfterContainer == WireFrames(lay.post) \o lay.trailer

\* the octets written between the authenticated and the untrusted fields
Between ==
    Slice(written.bytes, Len(BeforeContainer), Len(written.bytes) - Len(AfterContainer))

\* C16: for a V4 packet serialize writes the authenticated fields in
\* order, then the encrypted container if and only if authenticated or
\* encrypted is non-empty, then the untrusted fields in order; when both
\* are empty no container is written and nothing is encrypted
SerializationOrder ==
    Serialized /\ request.header.version = "V4" =>
        /\ Len(written.bytes) >= Len(BeforeContainer) + Len(AfterContainer)
        /\ Slice(written.bytes, 0, Len(BeforeContainer)) = BeforeContainer
        /\ Slice(written.bytes, Len(written.bytes) - Len(AfterContainer), Len(written.bytes))
              = AfterContainer
        /\ IF lay.pre = <<>> /\ lay.inner = <<>>
           THEN Between = <<>> /\ written.calls = <<>>
           ELSE /\ Len(Between) >= 8 + TagLength
                /\ U16FromBe(Slice(Between, 0, 2)) = 1028
                /\ U16FromBe(Slice(Between, 2, 4)) = Len(Between)
                /\ Len(written.calls) = 1
                /\ written.calls[1].msg = WireFrames(lay.inner)

SerializationOrderWitness ==
    /\ pc = "written"
    /\ request.header.version = "V4"
    /\ lay.pre = <<>>
    /\ Len(lay.inner) = 1
    /\ Len(lay.post) = 2
    /\ lay.post[1] # lay.post[2]
    /\ Len(written.calls) = 1

\* the nonce of the container written
WrittenNonce == Slice(Between, 8, 8 + U16FromBe(Slice(Between, 4, 6)))

\* C17: the nonce written into the encrypted container is the one the
\* caller of serialize supplies, so that packets serialized under the same
\* cipher carry the nonces of their callers
NonceFromCaller ==
    Serialized /\ request.header.version = "V4" /\ lay.container =>
        WrittenNonce = lay.nonce

(***************************************************************************)
(* Version 3.                                                               *)
(***************************************************************************)
\* the octets of a datagram after its header
AfterHeader == Slice(data, HeaderLength, Len(data))

\* C18: deserialize of a version-3 input parses no extension field: it
\* succeeds exactly when nothing or a MAC-sized trailer follows the header,
\* its three sequences are empty, every octet after the header is the MAC
\* and nothing is decrypted; serialize and serialize_without_encryption of
\* a V3 packet write the header and the MAC if there is one, whatever the
\* extension fields of the packet
VersionThreeNoFields ==
    /\ pc # "input" /\ parsed # NoResult /\ VersionOf(data[1]) = 3 =>
          /\ parsed.aead = <<>>
          /\ parsed.ok <=> AfterHeader = <<>> \/ Len(AfterHeader) \in 4..(MAXIMUM_SIZE - 1)
          /\ parsed.ok =>
                /\ parsed.val.header.version = "V3"
                /\ parsed.val.efdata = EfDefault
                /\ parsed.val.mac =
                      IF AfterHeader = <<>> THEN None
                      ELSE Some([keyid |-> U32FromBe(Slice(AfterHeader, 0, 4)),
                                 mac |-> Slice(AfterHeader, 4, Len(AfterHeader))])
    /\ Serialized /\ request.header.version = "V3" =>
          /\ written.bytes = HeaderOctets \o lay.trailer
          /\ written.calls = <<>>

VersionThreeWitness ==
    /\ pc = "written_without_encryption"
    /\ request.header.version = "V3"
    /\ request.efdata.untrusted # <<>>
    /\ parsed.ok
    /\ parsed.val.mac.some
    /\ parsed.val.efdata.untrusted = <<>>
    /\ written.bytes = HeaderOctets

(***************************************************************************)
(* The minimum field length.                                                *)
(***************************************************************************)
IsShort(f) == 4 + Len(f.body) < 16

HasShort(fs) == \E i \in 1..Len(fs) : IsShort(fs[i])

\* the frames after the container are reached: there is no container, or
\* it is decrypted
PostReached == ~lay.container \/ Decrypts

\* C19: a frame examined by the parser whose field_length is below 16 is
\* rejected with IncorrectLength, before the container, inside the
\* decrypted plaintext and after the container, whatever its type id; so is
\* a frame whose field_length exceeds the octets that follow
MinimumFieldLength ==
    pc # "input" =>
        /\ HasShort(lay.pre) => RejectedAsIncorrectLength
        /\ Decrypts /\ HasShort(lay.inner) => RejectedAsIncorrectLength
        /\ Decrypts /\ lay.ptTail = OverlongInner => RejectedAsIncorrectLength
        /\ PostReached /\ HasShort(PostFields(lay)) => RejectedAsIncorrectLength
        /\ PostReached /\ lay.trailer = OverlongFrame => RejectedAsIncorrectLength

MinimumFieldLengthWitness ==
    /\ pc = "parsed"
    /\ Decrypts
    /\ lay.pre # <<>>
    /\ ~HasShort(lay.pre)
    /\ Len(lay.inner) = 1
    /\ lay.inner[1] = Frame(772, Zeros(8), Zeros(3))
    /\ lay.ptTail = <<>>
    /\ RejectedAsIncorrectLength

(***************************************************************************)
(* The length of an encoded field.                                          *)
(***************************************************************************)
\* C20: for every variant and every body length serialize emits the type
\* id, a 16-bit length equal to 4 + the body length, the body and zero
\* padding up to the next multiple of 4: the length does not wrap around
\* and agrees with the number of body octets written
FieldEncodingLength ==
    /\ pc # "panicked"
    /\ pc = "written" =>
          /\ Len(written.bytes) = 4 + next_multiple_of(Len(lay.body), 4)
          /\ U16FromBe(Slice(written.bytes, 0, 2)) = lay.type_id
          /\ U16FromBe(Slice(written.bytes, 2, 4)) = 4 + Len(lay.body)
          /\ Slice(written.bytes, 4, 4 + Len(lay.body)) = lay.body
          /\ ~AnyNonZero(Slice(written.bytes, 4 + Len(lay.body), Len(written.bytes)))

(***************************************************************************)
(* The header alone.                                                        *)
(***************************************************************************)
\* the request is a parsed packet with its flags set
FlagsSet == request.header.version # "none"

\* C21: a 48-octet datagram that deserialize_without_decryption accepts is
\* written back octet for octet by serialize_without_encryption, for each
\* of the 256 values of the first octet; a parsed packet with any leap
\* indicator and any mode set on it is returned equal by serialize followed
\* by deserialize
HeaderRoundTrip ==
    /\ pc = "written_without_encryption" /\ ~FlagsSet => written.bytes = data
    /\ pc = "reparsed" /\ ~FlagsSet => reparsed.ok /\ reparsed.val = parsed.val
    /\ pc = "reparsed" /\ FlagsSet => reparsed.ok /\ reparsed.val = request

HeaderRoundTripWitness ==
    /\ pc = "reparsed"
    /\ FlagsSet
    /\ lay.first = 227
    /\ lay.tail = Fill(47, 255)
    /\ request.header.h.leap = "Leap59"
    /\ request.header.h.mode = "Broadcast"
    /\ reparsed.val = request

\* the two leap bits and the three mode bits of the first octet, by weight
LeapBitsOf(octet) == The({i \in 0..3 : \E rest \in 0..63 : octet = i * 64 + rest})

ModeBitsOf(octet) == The({i \in 0..7 : \E high \in 0..31 : octet = high * 8 + i})

\* C22: from_bits followed by to_bits returns the bits, for the leap bits
\* 0..3 and the mode bits 0..7; both mappings are bijections between the
\* bit values and the variants; the header decoder calls them with values
\* in those ranges only, so the unreachable arm is never taken
BitFieldRoundTrip ==
    /\ pc = "header" =>
          /\ parsed.val.leap \in NtpLeapIndicator
          /\ parsed.val.mode \in NtpAssociationMode
          /\ parsed.val.leap = LeapFromBits(LeapBitsOf(data[1]))
          /\ parsed.val.mode = ModeFromBits(ModeBitsOf(data[1]))
    /\ pc = "leap_bits" => written.bytes = <<LeapBitsOf(data[1])>>
    /\ pc = "mode_bits" => written.bytes = <<ModeBitsOf(data[1])>>
    /\ pc = "leap" => reparsed.val = parsed.val.leap
    /\ pc = "mode" => reparsed.val = parsed.val.mode
    /\ {LeapFromBits(i) : i \in 0..3} = NtpLeapIndicator
    /\ {ModeFromBits(i) : i \in 0..7} = NtpAssociationMode
    /\ \A v \in NtpLeapIndicator : LeapToBits(v) \in 0..3 /\ LeapFromBits(LeapToBits(v)) = v
    /\ \A v \in NtpAssociationMode : ModeToBits(v) \in 0..7 /\ ModeFromBits(ModeToBits(v)) = v

BitFieldRoundTripWitness ==
    /\ pc = "leap"
    /\ data[1] = 155
    /\ parsed.val.leap = "Leap59"
    /\ parsed.val.mode = "Client"
    /\ written.bytes = <<2>>
    /\ reparsed.val = "Leap59"

(***************************************************************************)
(* The container as written and as read back.                               *)
(***************************************************************************)
Pad4(n) == The({m \in n..(n + 3) : m % 4 = 0})

\* the length of the plaintext sealed and of its ciphertext
SealedLength == Len(written.calls[1].msg)

CiphertextLength == TagLength + SealedLength

WrittenFieldLength == written.bytes[3] * 256 + written.bytes[4]

\* the plaintext is short enough for a container of at most 65532 octets
FitsContainer == 8 + Len(lay.nonce) + Pad4(CiphertextLength) <= 65532

ContainerAgreementAt ==
    /\ pc \in {"encoded", "decoded"} =>
          /\ WrittenFieldLength = 8 + Pad4(Len(lay.nonce) + CiphertextLength)
          /\ WrittenFieldLength = 8 + Pad4(Len(lay.nonce)) + Pad4(CiphertextLength)
          /\ WrittenFieldLength = Len(written.bytes)
    /\ pc = "decoded" =>
          /\ parsed.ok
          /\ parsed.val.wire_length = Len(written.bytes)
          /\ parsed.val.nonce = lay.nonce
          /\ Len(parsed.val.ciphertext) = CiphertextLength
          /\ parsed.val.ciphertext
                = [i \in 1..CiphertextLength |-> written.bytes[8 + Len(lay.nonce) + i]]
          /\ CipherDecrypt(cipher, parsed.val.nonce, cursor, parsed.val.ciphertext)
                = [ok |-> TRUE, val |-> written.calls[1].msg]

ContainerAgreementWithin ==
    pc \in {"encoded", "decoded"} /\ FitsContainer => ContainerAgreementAt

ContainerAgreementWitness ==
    /\ pc = "decoded"
    /\ lay.bodies = <<65488>>
    /\ WrittenFieldLength = 65532
    /\ parsed.ok
    /\ parsed.val.nonce = lay.nonce

(***************************************************************************)
(* The walk over the extension fields.                                      *)
(***************************************************************************)
WalkEnded == pc \in {"returned", "failed"}

\* the wire length of the field at offset o of d: its declared length,
\* rounded up to a word
WireLengthAt(d, o) == Pad4(d[o + 3] * 256 + d[o + 4])

\* a turn of a loop over the datagram advances the offset by the field's
\* wire length, at least 16 and a multiple of 4, or fails; it is taken with
\* at least 28 octets left
ClearTurn ==
    pc \in {"before", "after"} =>
        \/ pc' = "after" /\ parsed' = parsed /\ Len(data) - parsed.offset < MAXIMUM_SIZE
        \/ pc' = "returned" /\ parsed' = parsed /\ Len(data) - parsed.offset < MAXIMUM_SIZE
        \/ /\ Len(data) - parsed.offset >= MAXIMUM_SIZE
           /\ \/ pc' = "failed" /\ ~reparsed'.ok
              \/ /\ pc' \in {"before", "after", "decrypt"}
                 /\ parsed'.offset - parsed.offset = WireLengthAt(data, parsed.offset)
                 /\ (parsed'.offset - parsed.offset) % 4 = 0
                 /\ parsed'.offset - parsed.offset >= MINIMUM_SIZE
                 /\ Len(parsed'.this.untrusted) + (IF pc' = "decrypt" THEN 1 ELSE 0)
                      = Len(parsed.this.untrusted) + 1

\* a turn of the loop over the plaintext advances its offset likewise
PlaintextTurn ==
    pc = "plaintext" =>
        \/ pc' = "after" /\ parsed' = parsed /\ parsed.inner >= Len(parsed.plaintext)
        \/ pc' = "failed" /\ ~reparsed'.ok
        \/ /\ pc' = "plaintext"
           /\ parsed'.inner - parsed.inner = WireLengthAt(parsed.plaintext, parsed.inner)
           /\ (parsed'.inner - parsed.inner) % 4 = 0
           /\ parsed'.inner - parsed.inner >= MINIMUM_SIZE
           /\ Len(parsed'.this.encrypted) = Len(parsed.this.encrypted) + 1

\* the offsets stay in range, and the offset returned leaves less than 28
\* octets; the call returns what ExtensionFieldData::deserialize returns
WalkInRange ==
    /\ pc # "panicked"
    /\ pc \in {"before", "decrypt", "plaintext", "after", "returned"} =>
          /\ HeaderLength <= parsed.offset
          /\ parsed.offset <= Len(data)
          /\ parsed.inner <= Len(parsed.plaintext)
    /\ pc = "returned" =>
          /\ reparsed.ok
          /\ HeaderLength <= reparsed.val.offset
          /\ reparsed.val.offset <= Len(data)
          /\ Len(data) - reparsed.val.offset < MAXIMUM_SIZE
    /\ WalkEnded => reparsed = EfDeserialize(data, HeaderLength, cipher)

\* C24: the extension-field walk terminates on every input; each turn of
\* each of the three loops returns an error or advances its offset by the
\* field's wire length, a multiple of 4 that is at least 16; a field is
\* parsed from the clear part only while at least 28 octets remain; on
\* success 48 <= offset <= data.len() and data.len() - offset < 28
WalkTerminates ==
    /\ []WalkInRange
    /\ [][ClearTurn /\ PlaintextTurn]_vars
    /\ <>WalkEnded

WalkWitness ==
    /\ pc = "returned"
    /\ Len(parsed.this.authenticated) = 1
    /\ Len(parsed.this.encrypted) = 1
    /\ Len(parsed.this.untrusted) = 1
    /\ Len(lay.trailer) = 12
    /\ reparsed.val.offset = Len(data) - 12

(***************************************************************************)
(* The whole of NtpPacket::deserialize.                                     *)
(***************************************************************************)
Returned == pc \in {"ok", "failed"}

\* the call never panics; it returns a packet or one of the five errors,
\* which is what NtpPacketDeserialize computes
NoPanic ==
    /\ pc # "panicked"
    /\ pc \in {"before", "decrypt", "plaintext", "after", "returned", "trailer"} =>
          /\ parsed.header.h.leap \in NtpLeapIndicator
          /\ parsed.header.h.mode \in NtpAssociationMode
          /\ parsed.offset <= Len(data)
    /\ pc = "ok" =>
          /\ reparsed.ok
          /\ reparsed.val.header = parsed.header
          /\ reparsed.val.mac.some <=> parsed.offset < Len(data)
    /\ pc = "failed" =>
          /\ ~reparsed.ok
          /\ reparsed.err[1] \in PacketParsingError
          /\ Len(reparsed.err) = IF reparsed.err[1] = "InvalidVersion" THEN 2 ELSE 1
    /\ Returned => reparsed = NtpPacketDeserialize(data, cipher)

\* C25: deserialize is total: for every byte string and every cipher it
\* returns Ok(packet) or Err(one of the five PacketParsingError kinds); no
\* index, range, subtraction or unwrap of the header, extension-field,
\* container or MAC decoders goes out of range, and the unreachable arms of
\* the leap and mode decoders are never reached
DeserializeTotal == []NoPanic /\ <>Returned

DeserializeTotalWitness ==
    /\ pc = "failed"
    /\ lay.length % 4 = 1
    /\ lay.length < Len(Wire(lay.of))
    /\ parsed # NoResult
    /\ parsed.offset = HeaderLength
    /\ Len(data) - parsed.offset >= MAXIMUM_SIZE
    /\ reparsed.err = <<"IncorrectLength">>

(***************************************************************************)
(* The NTS request from the builder to the parser.                          *)
(***************************************************************************)
\* C26: the request built by nts_poll_message_request_extra_cookies from an
\* identifier of 32 to 65531 octets, a cookie of 12 to 65531 octets and n
\* extra cookies, serialized with K at cursor position 0 and deserialized
\* with K, is returned equal: the UniqueIdentifier, the NtsCookie and the n
\* placeholders are in authenticated, encrypted and untrusted are empty,
\* there is no MAC; with another key deserialize fails with DecryptError
RequestEndToEnd ==
    /\ pc = "received" =>
          /\ parsed.ok
          /\ parsed.val = request
          /\ parsed.val.efdata.authenticated
                = <<UniqueIdentifier(lay.identifier), NtsCookie(lay.cookie)>>
                  \o [i \in 1..lay.request_extra_cookies |->
                         NtsCookiePlaceholder(Len(lay.cookie))]
          /\ parsed.val.efdata.encrypted = <<>>
          /\ parsed.val.efdata.untrusted = <<>>
          /\ parsed.val.mac = None
    /\ pc = "refused" => ~reparsed.ok /\ reparsed.err = <<"DecryptError">>

RequestEndToEndWitness ==
    /\ pc = "received"
    /\ Len(lay.identifier) = 35
    /\ Len(lay.cookie) = 13
    /\ lay.request_extra_cookies = 2
    /\ parsed.val = request
    /\ Len(parsed.val.efdata.authenticated) = 4

(***************************************************************************)
(* The cipher matters to a container only.                                  *)
(***************************************************************************)
\* the datagram of the layout holds a field of type 0x0404 among its
\* extension fields
HasContainerField(l) ==
    l.container \/ HasContainerFrame(l.pre) \/ HasContainerFrame(l.post)

NoSealedFields(p) == p.efdata.authenticated = <<>> /\ p.efdata.encrypted = <<>>

\* C27: for an input that holds no field of type 0x0404 among its extension
\* fields, and for every version 3 input, deserialize returns the same
\* result, packet or error, with every cipher, the result of
\* deserialize_without_decryption; for a packet whose authenticated and
\* encrypted sequences are empty, serialize writes with every cipher the
\* octets serialize_without_encryption writes
CipherIndependence ==
    /\ pc = "parsed_both" /\ (VersionOf(data[1]) = 3 \/ ~HasContainerField(lay)) =>
          /\ parsed = reparsed
          /\ \A K \in Keys : NtpPacketDeserialize(data, K) = reparsed
    /\ pc = "written_both" /\ NoSealedFields(request) =>
          /\ written.bytes = written.without_encryption
          /\ \A K \in Keys :
                NtpPacketSerialize(request, cursor, K).w = cursor \o written.without_encryption

CipherIndependenceWitness ==
    /\ pc = "written_both"
    /\ cipher = 2
    /\ request.header.version = "V4"
    /\ NoSealedFields(request)
    /\ Len(request.efdata.untrusted) = 2
    /\ request.mac.some
    /\ written.bytes = written.without_encryption

====
